---- MODULE Spec2Model ----
(***************************************************************************)
(* Schema relationship resolver of the Text-to-SQL application (app.py):   *)
(* TableKnowledgeGraph._build_graph, get_join_relationships and            *)
(* get_all_tables_needed; the read-only queries get_columns_for_tables,    *)
(* get_graph_stats and export_graph_data; the JSON snapshot written by     *)
(* test_visualization.py and read back by visualize_kg.py; and the three   *)
(* stages of TextToSQLPipeline.process; and the Joins sheet that           *)
(* update_joins.py writes and load_excel_data reads.                       *)
(*                                                                         *)
(* Python strings are sequences of one-character strings, so that          *)
(* str.lower, str.split, str.strip, the `in` substring test, str.join and  *)
(* the f-string formatting are computed character by character.            *)
(* A networkx MultiDiGraph is the sequence of its nodes and the sequence   *)
(* of its edges, both in insertion order.                                  *)
(***************************************************************************)
EXTENDS Integers, Sequences, FiniteSets, TLC

VARIABLES schemas, relationships, nodes, edges, pc, ret, answer, llm, inv

vars == <<schemas, relationships, nodes, edges, pc, ret, answer, llm, inv>>

(***************************************************************************)
(* Bounds of the model.                                                    *)
(***************************************************************************)
\* longest relationship list drawn from RelationshipPool
MaxRels == 4

\* longest table list passed to a query
MaxTables == 3

\* the pipeline invocations that run at the same time
NumInvocations == 2

(***************************************************************************)
(* Python values.                                                          *)
(***************************************************************************)
Range(s) == {s[i] : i \in 1..Len(s)}

\* Optional[str]: None, or a string
None == [some |-> FALSE, val |-> <<>>]

Some(s) == [some |-> TRUE, val |-> s]

\* dict.get(key, default) on an optional entry of a dict
get(entry, default) == IF entry.some THEN entry.val ELSE default

\* truth value of an Optional[str] (`if context:`)
truthy(o) == o.some /\ o.val # <<>>

UpperChars ==
    <<"A", "B", "C", "D", "E", "F", "G", "H", "I", "J", "K", "L", "M",
      "N", "O", "P", "Q", "R", "S", "T", "U", "V", "W", "X", "Y", "Z">>

LowerChars ==
    <<"a", "b", "c", "d", "e", "f", "g", "h", "i", "j", "k", "l", "m",
      "n", "o", "p", "q", "r", "s", "t", "u", "v", "w", "x", "y", "z">>

\* the lower-case letter of every upper-case letter
LowerMap ==
    [c \in Range(UpperChars) |->
        LowerChars[CHOOSE i \in 1..Len(UpperChars) : UpperChars[i] = c]]

LowerChar(c) == IF c \in DOMAIN LowerMap THEN LowerMap[c] ELSE c

\* str.lower()
lower(s) == [i \in 1..Len(s) |-> LowerChar(s[i])]

\* `sub in s` on strings
contains(sub, s) ==
    \E i \in 0..(Len(s) - Len(sub)) :
        \A k \in 1..Len(sub) : s[i + k] = sub[k]

Whitespace == {" ", "\t", "\n"}

\* str.strip()
strip(s) ==
    LET keep == {i \in 1..Len(s) : s[i] \notin Whitespace}
    IN  IF keep = {} THEN <<>>
        ELSE LET lo == CHOOSE i \in keep : \A k \in keep : i <= k
                 hi == CHOOSE i \in keep : \A k \in keep : k <= i
             IN  SubSeq(s, lo, hi)

\* str.split(sep) for a one-character separator
RECURSIVE split(_, _)
split(s, sep) ==
    IF \A i \in 1..Len(s) : s[i] # sep THEN <<s>>
    ELSE LET p == CHOOSE i \in 1..Len(s) :
                      s[i] = sep /\ \A k \in 1..(i - 1) : s[k] # sep
         IN  <<SubSeq(s, 1, p - 1)>> \o split(SubSeq(s, p + 1, Len(s)), sep)

\* sep.join(parts)
RECURSIVE join(_, _)
join(sep, parts) ==
    IF parts = <<>> THEN <<>>
    ELSE IF Len(parts) = 1 THEN parts[1]
    ELSE parts[1] \o sep \o join(sep, Tail(parts))

\* zip(a, b): pairs up to the shorter of the two lists
zip(a, b) ==
    LET n == IF Len(a) <= Len(b) THEN Len(a) ELSE Len(b)
    IN  [k \in 1..n |-> <<a[k], b[k]>>]

\* concatenation of a sequence of sequences
RECURSIVE Flatten(_)
Flatten(ss) == IF ss = <<>> THEN <<>> ELSE Head(ss) \o Flatten(Tail(ss))

(***************************************************************************)
(* Python values that travel through the json module: None, bool, int,     *)
(* str, list and dict share one record shape.  A dict keeps its members in *)
(* insertion order; a member holds its key in `str` and its value as the   *)
(* one element of `items`.  An int holds its decimal text in `str`.        *)
(***************************************************************************)
JNull == [type |-> "null", str |-> <<>>, items |-> <<>>]

JBool(b) == [type |-> IF b THEN "true" ELSE "false", str |-> <<>>, items |-> <<>>]

JStr(s) == [type |-> "str", str |-> s, items |-> <<>>]

JList(items) == [type |-> "list", str |-> <<>>, items |-> items]

JMember(key, value) == [type |-> "member", str |-> key, items |-> <<value>>]

JDict(members) == [type |-> "dict", str |-> <<>>, items |-> members]

DigitChars == <<"0", "1", "2", "3", "4", "5", "6", "7", "8", "9">>

Digits == Range(DigitChars)

\* str(n) of a Python int
RECURSIVE str_of_nat(_)
str_of_nat(n) ==
    IF n < 10 THEN <<DigitChars[n + 1]>>
    ELSE Append(str_of_nat(n \div 10), DigitChars[(n % 10) + 1])

str_of_int(n) == IF n < 0 THEN <<"-">> \o str_of_nat(-n) ELSE str_of_nat(n)

digit_value(c) == (CHOOSE k \in 1..10 : DigitChars[k] = c) - 1

\* int(text) of a decimal text with an optional sign
RECURSIVE nat_of_str(_, _)
nat_of_str(text, acc) ==
    IF text = <<>> THEN acc
    ELSE nat_of_str(Tail(text), 10 * acc + digit_value(Head(text)))

int_of_str(text) ==
    IF text # <<>> /\ Head(text) = "-" THEN -nat_of_str(Tail(text), 0)
    ELSE nat_of_str(text, 0)

JInt(n) == [type |-> "int", str |-> str_of_int(n), items |-> <<>>]

\* d[key] and d.get(key) of a dict: the member that holds the key
dict_has(d, key) == \E k \in 1..Len(d.items) : d.items[k].str = key

dict_get(d, key) ==
    d.items[CHOOSE k \in 1..Len(d.items) : d.items[k].str = key].items[1]

\* dict[key] = value: a known key keeps its place and takes the new value
dict_set(members, key, value) ==
    IF \E k \in 1..Len(members) : members[k].str = key
    THEN [k \in 1..Len(members) |->
            IF members[k].str = key THEN JMember(key, value) ELSE members[k]]
    ELSE Append(members, JMember(key, value))

(***************************************************************************)
(* json.dump(obj, f, indent=2) and json.dumps(obj): the text written.      *)
(***************************************************************************)
spaces(n) == [k \in 1..n |-> " "]

\* a str between quotes, with the quote, the backslash and the control
\* characters escaped
escape_char(c) ==
    CASE c = "\"" -> <<"\\", "\"">>
      [] c = "\\" -> <<"\\", "\\">>
      [] c = "\n" -> <<"\\", "n">>
      [] c = "\t" -> <<"\\", "t">>
      [] c = "\r" -> <<"\\", "r">>
      [] OTHER -> <<c>>

encode_str(s) ==
    <<"\"">> \o Flatten([k \in 1..Len(s) |-> escape_char(s[k])]) \o <<"\"">>

\* the text of value v whose container is indented by `level` spaces
RECURSIVE json_dumps_at(_, _)
json_dumps_at(v, level) ==
    LET inner == level + 2
        item(k) == spaces(inner) \o
                   (IF v.type = "dict"
                    THEN encode_str(v.items[k].str) \o <<":", " ">> \o
                         json_dumps_at(v.items[k].items[1], inner)
                    ELSE json_dumps_at(v.items[k], inner))
        body == join(<<",", "\n">>, [k \in 1..Len(v.items) |-> item(k)])
    IN  CASE v.type = "null" -> <<"n", "u", "l", "l">>
          [] v.type = "true" -> <<"t", "r", "u", "e">>
          [] v.type = "false" -> <<"f", "a", "l", "s", "e">>
          [] v.type = "int" -> v.str
          [] v.type = "str" -> encode_str(v.str)
          [] v.type = "list" ->
                IF v.items = <<>> THEN <<"[", "]">>
                ELSE <<"[", "\n">> \o body \o <<"\n">> \o spaces(level) \o <<"]">>
          [] v.type = "dict" ->
                IF v.items = <<>> THEN <<"{", "}">>
                ELSE <<"{", "\n">> \o body \o <<"\n">> \o spaces(level) \o <<"}">>

json_dump_indent2(v) == json_dumps_at(v, 0)

(***************************************************************************)
(* json.loads(text): None, booleans, integers, strings, lists and dicts.   *)
(* Floats, exponents, \u escapes and the NaN and Infinity literals occur   *)
(* in no text of this model and are not recognised.                        *)
(***************************************************************************)
JsonWhitespace == {" ", "\t", "\n", "\r"}

\* the first position from i on that holds no whitespace
skip_ws(s, i) ==
    CHOOSE j \in i..(Len(s) + 1) :
        /\ j = Len(s) + 1 \/ s[j] \notin JsonWhitespace
        /\ \A k \in i..(j - 1) : s[k] \in JsonWhitespace

\* text s holds the literal lit at position i
match_at(s, i, lit) ==
    /\ i + Len(lit) - 1 <= Len(s)
    /\ \A k \in 1..Len(lit) : s[i + k - 1] = lit[k]

ParseError == [ok |-> FALSE, val |-> JNull, pos |-> 0]

Parsed(v, pos) == [ok |-> TRUE, val |-> v, pos |-> pos]

\* the characters of a string from position i (after the opening quote) up
\* to its closing quote
RECURSIVE scan_string(_, _, _)
scan_string(s, i, acc) ==
    IF i > Len(s) THEN ParseError
    ELSE CASE s[i] = "\"" -> Parsed(JStr(acc), i + 1)
           [] s[i] = "\\" ->
                IF i + 1 > Len(s) THEN ParseError
                ELSE CASE s[i + 1] \in {"\"", "\\", "/"} ->
                            scan_string(s, i + 2, Append(acc, s[i + 1]))
                       [] s[i + 1] = "n" -> scan_string(s, i + 2, Append(acc, "\n"))
                       [] s[i + 1] = "t" -> scan_string(s, i + 2, Append(acc, "\t"))
                       [] s[i + 1] = "r" -> scan_string(s, i + 2, Append(acc, "\r"))
                       [] OTHER -> ParseError
           [] s[i] \in {"\n", "\t", "\r"} -> ParseError
           [] OTHER -> scan_string(s, i + 1, Append(acc, s[i]))

\* the end of the run of digits that starts at position i
digits_end(s, i) ==
    CHOOSE j \in i..(Len(s) + 1) :
        /\ j = Len(s) + 1 \/ s[j] \notin Digits
        /\ \A k \in i..(j - 1) : s[k] \in Digits

\* an integer at position i: an optional sign, then 0 or a run of digits
\* that does not start with 0
scan_number(s, i) ==
    LET first == IF s[i] = "-" THEN i + 1 ELSE i
    IN  IF first > Len(s) \/ s[first] \notin Digits THEN ParseError
        ELSE LET last == IF s[first] = "0" THEN first + 1
                         ELSE digits_end(s, first)
             IN  Parsed(JInt(int_of_str(SubSeq(s, i, last - 1))), last)

RECURSIVE scan_value(_, _), scan_elements(_, _, _), scan_members(_, _, _)

\* the value that starts at position i
scan_value(s, i) ==
    IF i > Len(s) THEN ParseError
    ELSE CASE s[i] = "\"" -> scan_string(s, i + 1, <<>>)
           [] s[i] = "{" ->
                IF match_at(s, skip_ws(s, i + 1), <<"}">>)
                THEN Parsed(JDict(<<>>), skip_ws(s, i + 1) + 1)
                ELSE scan_members(s, skip_ws(s, i + 1), <<>>)
           [] s[i] = "[" ->
                IF match_at(s, skip_ws(s, i + 1), <<"]">>)
                THEN Parsed(JList(<<>>), skip_ws(s, i + 1) + 1)
                ELSE scan_elements(s, skip_ws(s, i + 1), <<>>)
           [] match_at(s, i, <<"n", "u", "l", "l">>) -> Parsed(JNull, i + 4)
           [] match_at(s, i, <<"t", "r", "u", "e">>) -> Parsed(JBool(TRUE), i + 4)
           [] match_at(s, i, <<"f", "a", "l", "s", "e">>) -> Parsed(JBool(FALSE), i + 5)
           [] s[i] = "-" \/ s[i] \in Digits -> scan_number(s, i)
           [] OTHER -> ParseError

\* the elements of a list from position i on, `acc` being those before
scan_elements(s, i, acc) ==
    LET e == scan_value(s, i)
    IN  IF ~e.ok THEN ParseError
        ELSE LET j == skip_ws(s, e.pos)
             IN  CASE match_at(s, j, <<"]">>) ->
                        Parsed(JList(Append(acc, e.val)), j + 1)
                   [] match_at(s, j, <<",">>) ->
                        scan_elements(s, skip_ws(s, j + 1), Append(acc, e.val))
                   [] OTHER -> ParseError

\* the members of a dict from position i on, `acc` being those before
scan_members(s, i, acc) ==
    IF ~match_at(s, i, <<"\"">>) THEN ParseError
    ELSE LET key == scan_string(s, i + 1, <<>>)
         IN  IF ~key.ok \/ ~match_at(s, skip_ws(s, key.pos), <<":">>)
             THEN ParseError
             ELSE LET e == scan_value(s, skip_ws(s, skip_ws(s, key.pos) + 1))
                  IN  IF ~e.ok THEN ParseError
                      ELSE LET j == skip_ws(s, e.pos)
                               members == dict_set(acc, key.val.str, e.val)
                           IN  CASE match_at(s, j, <<"}">>) ->
                                      Parsed(JDict(members), j + 1)
                                 [] match_at(s, j, <<",">>) ->
                                      scan_members(s, skip_ws(s, j + 1), members)
                                 [] OTHER -> ParseError

\* json.loads(text): the value, or JSONDecodeError
json_loads(s) ==
    LET r == scan_value(s, skip_ws(s, 1))
    IN  IF r.ok /\ skip_ws(s, r.pos) = Len(s) + 1
        THEN [raised |-> "none", value |-> r.val]
        ELSE [raised |-> "JSONDecodeError", value |-> JNull]

(***************************************************************************)
(* String literals of the program and of the data it is run on.            *)
(***************************************************************************)
tCounterparty ==
    <<"C", "o", "u", "n", "t", "e", "r", "p", "a", "r", "t", "y">>

tTrade ==
    <<"T", "r", "a", "d", "e">>

tConcentration ==
    <<"C", "o", "n", "c", "e", "n", "t", "r", "a", "t", "i", "o", "n">>

tLimit ==
    <<"L", "i", "m", "i", "t">>

colEntity ==
    <<"E", "n", "t", "i", "t", "y">>

colCounterpartyID ==
    <<"C", "o", "u", "n", "t", "e", "r", "p", "a", "r", "t", "y", " ", "I", "D">>

colTradeID ==
    <<"T", "r", "a", "d", "e", " ", "I", "D">>

colConcentrationValue ==
    <<"C", "o", "n", "c", "e", "n", "t", "r", "a", "t", "i", "o", "n", " ", "V", "a", "l", "u", "e">>

descEntity ==
    <<"L", "e", "g", "a", "l", " ", "e", "n", "t", "i", "t", "y">>

descCounterpartyID ==
    <<"C", "o", "u", "n", "t", "e", "r", "p", "a", "r", "t", "y", " ", "i", "d", "e", "n", "t", "i", "f", "i", "e", "r">>

descTradeID ==
    <<"T", "r", "a", "d", "e", " ", "i", "d", "e", "n", "t", "i", "f", "i", "e", "r">>

descConcentrationValue ==
    <<"C", "o", "n", "c", "e", "n", "t", "r", "a", "t", "i", "o", "n", " ", "b", "u", "c", "k", "e", "t">>

keyEntityCounterpartyID ==
    <<"E", "n", "t", "i", "t", "y", "+", "C", "o", "u", "n", "t", "e", "r", "p", "a", "r", "t", "y", " ", "I", "D">>

keyEntityReportingCounterpartyID ==
    <<"E", "n", "t", "i", "t", "y", "+", "R", "e", "p", "o", "r", "t", "i", "n", "g", " ", "C", "o", "u", "n", "t", "e", "r", "p", "a", "r", "t", "y", " ", "I", "D">>

keyEntityCounterpartyCountry ==
    <<"E", "n", "t", "i", "t", "y", "+", "C", "o", "u", "n", "t", "e", "r", "p", "a", "r", "t", "y", " ", "C", "o", "u", "n", "t", "r", "y">>

keyEntityCounterpartySector ==
    <<"E", "n", "t", "i", "t", "y", "+", "C", "o", "u", "n", "t", "e", "r", "p", "a", "r", "t", "y", " ", "S", "e", "c", "t", "o", "r">>

keyEntityInternalRating ==
    <<"E", "n", "t", "i", "t", "y", "+", "I", "n", "t", "e", "r", "n", "a", "l", " ", "R", "a", "t", "i", "n", "g">>

keyEntityConcentrationValue ==
    <<"E", "n", "t", "i", "t", "y", "+", "C", "o", "n", "c", "e", "n", "t", "r", "a", "t", "i", "o", "n", " ", "V", "a", "l", "u", "e">>

keyEntityDeskCounterpartyID ==
    <<"E", "n", "t", "i", "t", "y", " ", "+", " ", "D", "e", "s", "k", " ", "+", " ", "C", "o", "u", "n", "t", "e", "r", "p", "a", "r", "t", "y", " ", "I", "D">>

keyEntityDeskConcentrationID ==
    <<"E", "n", "t", "i", "t", "y", " ", "+", " ", "D", "e", "s", "k", " ", "+", " ", "C", "o", "n", "c", "e", "n", "t", "r", "a", "t", "i", "o", "n", " ", "I", "D">>

keyTradeIDPadded ==
    <<" ", "T", "r", "a", "d", "e", " ", "I", "D", " ">>

keyTradeID ==
    <<"T", "r", "a", "d", "e", " ", "I", "D">>

keyEntityLimitID ==
    <<"E", "n", "t", "i", "t", "y", "+", "L", "i", "m", "i", "t", " ", "I", "D">>

keyLimitID ==
    <<"L", "i", "m", "i", "t", " ", "I", "D">>

ctxDefault ==
    <<"d", "e", "f", "a", "u", "l", "t">>

ctxCountryLevel ==
    <<"F", "o", "r", " ", "c", "o", "u", "n", "t", "r", "y", " ", "l", "e", "v", "e", "l", " ", "d", "a", "t", "a">>

ctxSectorLevel ==
    <<"F", "o", "r", " ", "s", "e", "c", "t", "o", "r", " ", "l", "e", "v", "e", "l", " ", "d", "a", "t", "a">>

ctxRatingLevel ==
    <<"F", "o", "r", " ", "r", "a", "t", "i", "n", "g", " ", "l", "e", "v", "e", "l", " ", "d", "a", "t", "a">>

reqCountry ==
    <<"C", "o", "u", "n", "t", "r", "y">>

reqSECTOR ==
    <<"S", "E", "C", "T", "O", "R">>

\* a requested context that occurs inside the word "default"
reqA ==
    <<"a">>

strINNER ==
    <<"I", "N", "N", "E", "R">>

strJoin ==
    <<"J", "o", "i", "n", " ">>

strWith ==
    <<" ", "w", "i", "t", "h", " ">>

strDot ==
    <<".">>

strEq ==
    <<" ", "=", " ">>

strAND ==
    <<" ", "A", "N", "D", " ">>

(***************************************************************************)
(* Seed data: the schema catalog and the relationship definitions.         *)
(***************************************************************************)
Column(name, description) == [name |-> name, description |-> description]

\* the three tables load_excel_data builds, with a short column preview
ShippedSchemas ==
    << [table |-> tCounterparty,
        columns |-> <<Column(colEntity, descEntity),
                      Column(colCounterpartyID, descCounterpartyID)>>],
       [table |-> tTrade,
        columns |-> <<Column(colTradeID, descTradeID)>>],
       [table |-> tConcentration,
        columns |-> <<Column(colConcentrationValue, descConcentrationValue)>>] >>

\* a relationship dict as load_excel_data builds it: every key present
Rel(t1, t2, k1, k2, context) ==
    [table1 |-> t1, table2 |-> t2, join_key_1 |-> k1, join_key_2 |-> k2,
     join_type |-> Some(strINNER), context |-> Some(context),
     description |-> Some(strJoin \o t1 \o strWith \o t2)]

\* a relationship dict with only the four mandatory keys
BareRel(t1, t2, k1, k2) ==
    [table1 |-> t1, table2 |-> t2, join_key_1 |-> k1, join_key_2 |-> k2,
     join_type |-> None, context |-> None, description |-> None]

\* the four rows of joins_data
RelTradeDefault ==
    Rel(tCounterparty, tTrade, keyEntityCounterpartyID,
        keyEntityReportingCounterpartyID, ctxDefault)

RelCountry ==
    Rel(tCounterparty, tConcentration, keyEntityCounterpartyCountry,
        keyEntityConcentrationValue, ctxCountryLevel)

RelSector ==
    Rel(tCounterparty, tConcentration, keyEntityCounterpartySector,
        keyEntityConcentrationValue, ctxSectorLevel)

RelRating ==
    Rel(tCounterparty, tConcentration, keyEntityInternalRating,
        keyEntityConcentrationValue, ctxRatingLevel)

\* further definitions the constructor accepts
RelConcentrationDefault ==
    BareRel(tCounterparty, tConcentration, keyEntityDeskCounterpartyID,
            keyEntityDeskConcentrationID)

RelCountryReversed ==
    Rel(tConcentration, tCounterparty, keyEntityConcentrationValue,
        keyEntityCounterpartyCountry, ctxCountryLevel)

RelTradeLimit ==
    BareRel(tTrade, tLimit, keyTradeIDPadded, keyTradeID)

RelUnevenKeys ==
    Rel(tConcentration, tLimit, keyEntityLimitID, keyLimitID, ctxDefault)

RelationshipPool ==
    << RelTradeDefault, RelCountry, RelSector, RelConcentrationDefault,
       RelCountryReversed, RelTradeLimit, RelUnevenKeys >>

\* the order-preserving selections of at most MaxRels pool entries
RelationshipLists ==
    LET n == Len(RelationshipPool)
        Pick(S) == [k \in 1..Cardinality(S) |->
                      RelationshipPool[CHOOSE i \in S :
                          Cardinality({m \in S : m < i}) = k - 1]]
    IN  {Pick(S) : S \in {T \in SUBSET (1..n) : Cardinality(T) <= MaxRels}}

\* the shipped rows with a default definition next to the country-level one
CountryScenario ==
    <<RelTradeDefault, RelCountry, RelConcentrationDefault, RelSector, RelRating>>

TableNames == {tCounterparty, tTrade, tConcentration, tLimit}

\* the table lists a query is called with
RECURSIVE ListsUpTo(_)
ListsUpTo(n) ==
    IF n = 0 THEN {<<>>}
    ELSE LET shorter == ListsUpTo(n - 1)
         IN  shorter \cup {Append(l, t) : l \in {x \in shorter : Len(x) = n - 1},
                                          t \in TableNames}

TableLists == ListsUpTo(MaxTables)

\* the contexts a query is called with
Contexts == {None, Some(reqCountry), Some(reqSECTOR), Some(reqA)}

(***************************************************************************)
(* TableKnowledgeGraph: construction.                                      *)
(***************************************************************************)
NodeNames == {nodes[i].name : i \in 1..Len(nodes)}

\* MultiDiGraph.add_node(name, columns=...): a known node keeps its place
add_node(ns, name, columns) ==
    IF \E i \in 1..Len(ns) : ns[i].name = name
    THEN [i \in 1..Len(ns) |->
            IF ns[i].name = name
            THEN [name |-> name, columns |-> Some(columns)]
            ELSE ns[i]]
    ELSE Append(ns, [name |-> name, columns |-> Some(columns)])

\* faulty variant of add_bare_node: add_edge creates no node
add_bare_node_never(ns, name) == ns

\* the nodes MultiDiGraph.add_edge(u, v) creates when they are missing
add_bare_node(ns, name) ==
    IF \E i \in 1..Len(ns) : ns[i].name = name THEN ns
    ELSE Append(ns, [name |-> name, columns |-> None])

\* column list of one side of a relationship: split on '+', strip each
parse_key(key) ==
    LET parts == split(key, "+")
    IN  [k \in 1..Len(parts) |-> strip(parts[k])]

\* the edge _build_graph adds for one relationship
make_edge(rel) ==
    [from |-> rel.table1,
     to |-> rel.table2,
     source_columns |-> parse_key(rel.join_key_1),
     target_columns |-> parse_key(rel.join_key_2),
     join_type |-> get(rel.join_type, strINNER),
     context |-> get(rel.context, ctxDefault),
     description |-> get(rel.description,
                         strJoin \o rel.table1 \o strWith \o rel.table2)]

(***************************************************************************)
(* Replies of the LLM the pipeline is run on.                              *)
(***************************************************************************)
\* the answer the prompt asks for
replyCountry ==
    <<"{", "\"", "t", "a", "b", "l", "e", "s", "\"", ":", " ", "[", "\"",
      "C", "o", "u", "n", "t", "e", "r", "p", "a", "r", "t", "y", "\"", ",",
      " ", "\"", "C", "o", "n", "c", "e", "n", "t", "r", "a", "t", "i", "o",
      "n", "\"", "]", ",", " ", "\"", "c", "o", "n", "t", "e", "x", "t",
      "\"", ":", " ", "\"", "C", "o", "u", "n", "t", "r", "y", "\"", ",",
      " ", "\"", "r", "e", "a", "s", "o", "n", "i", "n", "g", "\"", ":", " ",
      "\"", "b", "y", " ", "c", "o", "u", "n", "t", "r", "y", "\"", "}">>

\* the object inside a markdown fence
replyFenced ==
    <<"~", "~", "~", "j", "s", "o", "n", "\n", "{", "\"", "t", "a", "b", "l",
      "e", "s", "\"", ":", " ", "[", "\"", "C", "o", "u", "n", "t", "e", "r",
      "p", "a", "r", "t", "y", "\"", ",", " ", "\"", "T", "r", "a", "d", "e",
      "\"", "]", ",", " ", "\"", "c", "o", "n", "t", "e", "x", "t", "\"",
      ":", " ", "n", "u", "l", "l", "}", "\n", "~", "~", "~">>

\* the object with text around it, without a context key
replyChatty ==
    <<"H", "e", "r", "e", " ", "y", "o", "u", " ", "g", "o", ":", " ", "{",
      "\"", "t", "a", "b", "l", "e", "s", "\"", ":", " ", "[", "\"", "T",
      "r", "a", "d", "e", "\"", ",", " ", "\"", "C", "o", "n", "c", "e", "n",
      "t", "r", "a", "t", "i", "o", "n", "\"", "]", "}", " ", "D", "o", "n",
      "e", ".">>

\* the object with an empty context
replyEmptyContext ==
    <<"{", "\"", "t", "a", "b", "l", "e", "s", "\"", ":", " ", "[", "\"",
      "C", "o", "u", "n", "t", "e", "r", "p", "a", "r", "t", "y", "\"", ",",
      " ", "\"", "T", "r", "a", "d", "e", "\"", "]", ",", " ", "\"", "c",
      "o", "n", "t", "e", "x", "t", "\"", ":", " ", "\"", "\"", "}">>

\* the object naming a table that is no node of every graph
replyUnknownTable ==
    <<"{", "\"", "t", "a", "b", "l", "e", "s", "\"", ":", " ", "[", "\"",
      "T", "r", "a", "d", "e", "\"", ",", " ", "\"", "L", "i", "m", "i", "t",
      "\"", "]", ",", " ", "\"", "c", "o", "n", "t", "e", "x", "t", "\"",
      ":", " ", "n", "u", "l", "l", "}">>

\* an object without the tables key
replyNoTables ==
    <<"{", "\"", "c", "o", "n", "t", "e", "x", "t", "\"", ":", " ", "\"",
      "C", "o", "u", "n", "t", "r", "y", "\"", "}">>

\* text without braces
replyProse ==
    <<"I", " ", "c", "a", "n", "n", "o", "t", " ", "a", "n", "s", "w", "e",
      "r", " ", "t", "h", "a", "t", ".">>

\* braces in the wrong order
replyWrongOrder ==
    <<"}", " ", "n", "o", " ", "t", "a", "b", "l", "e", "s", " ", "{">>

\* an object cut off before its closing brace
replyTruncated ==
    <<"{", "\"", "t", "a", "b", "l", "e", "s", "\"", ":", " ", "[", "\"",
      "C", "o", "u", "n", "t", "e", "r", "p", "a", "r", "t", "y", "\"">>

\* valid JSON that is a list
replyList ==
    <<"[", "\"", "C", "o", "u", "n", "t", "e", "r", "p", "a", "r", "t", "y",
      "\"", ",", " ", "\"", "T", "r", "a", "d", "e", "\"", "]">>

\* valid JSON that is null
replyNull ==
    <<"n", "u", "l", "l">>

\* a query as the prompt asks for it
sqlPlain ==
    <<"S", "E", "L", "E", "C", "T", " ", "1">>

\* a query inside a markdown fence
sqlFenced ==
    <<"~", "~", "~", "s", "q", "l", "\n", "S", "E", "L", "E", "C", "T", " ",
      "1", "\n", "~", "~", "~">>

TableReplies ==
    {replyCountry, replyFenced, replyChatty, replyEmptyContext, replyUnknownTable,
     replyNoTables, replyProse, replyWrongOrder, replyTruncated, replyList,
     replyNull}

SqlReplies == {sqlPlain, sqlFenced}

\* the replies of the runs with several invocations
ConcurrentTableReplies == {replyCountry, replyChatty, replyUnknownTable, replyProse}

ConcurrentSqlReplies == {sqlPlain}

\* the four-table cycle Counterparty, Trade, Limit, Concentration
CycleScenario ==
    <<RelTradeDefault, RelConcentrationDefault, RelTradeLimit, RelUnevenKeys>>

PipelineGraphs == {CountryScenario, CycleScenario}

NoReturn ==
    [op |-> "none", tables |-> <<>>, context |-> None, joins |-> <<>>,
     all_tables |-> {}, raised |-> "none"]

NoAnswer == [op |-> "none", value |-> <<>>]

Invocations == DOMAIN inv

\* no process call is under way
NoProcessCall == \A i \in Invocations : inv[i].at = "idle"

\* the state before _build_graph runs, for the relationships given, the
\* replies the LLM may give and the number of pipeline invocations
InitWith(given, replies, invocations) ==
    /\ schemas = ShippedSchemas
    /\ relationships \in given
    /\ nodes = <<>>
    /\ edges = <<>>
    /\ pc = IF Len(schemas) = 0
            THEN [at |-> "add_edges", i |-> 1]
            ELSE [at |-> "add_nodes", i |-> 1]
    /\ ret = NoReturn
    /\ answer = NoAnswer
    /\ llm = replies
    /\ inv = invocations

Init ==
    InitWith(RelationshipLists \cup {CountryScenario},
             [tables |-> {}, sql |-> {}], <<>>)

\* one iteration of the loop over self.schemas.items()
AddTable ==
    /\ pc.at = "add_nodes"
    /\ pc.i <= Len(schemas)
    /\ nodes' = add_node(nodes, schemas[pc.i].table,
                         [k \in 1..Len(schemas[pc.i].columns) |->
                              schemas[pc.i].columns[k].name])
    /\ pc' = IF pc.i = Len(schemas)
             THEN [at |-> "add_edges", i |-> 1]
             ELSE [at |-> "add_nodes", i |-> pc.i + 1]
    /\ UNCHANGED <<schemas, relationships, edges, ret, answer, llm, inv>>

\* faulty variant of AddRelationship: the graph is a DiGraph, where a second
\* edge of an ordered pair replaces the data of the first
AddRelationship_digraph ==
    /\ pc.at = "add_edges"
    /\ pc.i <= Len(relationships)
    /\ LET rel == relationships[pc.i]
           new == make_edge(rel)
       IN  /\ nodes' = add_bare_node(add_bare_node(nodes, rel.table1), rel.table2)
           /\ edges' = IF \E k \in 1..Len(edges) :
                              edges[k].from = new.from /\ edges[k].to = new.to
                       THEN [k \in 1..Len(edges) |->
                               IF edges[k].from = new.from /\ edges[k].to = new.to
                               THEN new ELSE edges[k]]
                       ELSE Append(edges, new)
    /\ pc' = [at |-> "add_edges", i |-> pc.i + 1]
    /\ UNCHANGED <<schemas, relationships, ret, answer, llm, inv>>

\* one iteration of the loop over self.relationships
AddRelationship ==
    /\ pc.at = "add_edges"
    /\ pc.i <= Len(relationships)
    /\ LET rel == relationships[pc.i]
       IN  /\ nodes' = add_bare_node(add_bare_node(nodes, rel.table1), rel.table2)
           /\ edges' = Append(edges, make_edge(rel))
    /\ pc' = [at |-> "add_edges", i |-> pc.i + 1]
    /\ UNCHANGED <<schemas, relationships, ret, answer, llm, inv>>

\* the constructor returns: the graph is built
Built ==
    /\ pc.at = "add_edges"
    /\ pc.i > Len(relationships)
    /\ pc' = [at |-> "ready", i |-> 0]
    /\ UNCHANGED <<schemas, relationships, nodes, edges, ret, answer, llm, inv>>

(***************************************************************************)
(* TableKnowledgeGraph.get_join_relationships.                             *)
(***************************************************************************)
\* graph.get_edge_data(start, end): the parallel edges start -> end, by key
get_edge_data(start, end) ==
    SelectSeq(edges, LAMBDA e : e.from = start /\ e.to = end)

\* faulty variant of directions: only the lookup in list order is made
directions_one_way(source, target) == <<<<source, target>>>>

\* faulty variant of directions: the opposite direction is looked up first
directions_backward_first(source, target) ==
    <<<<target, source>>, <<source, target>>>>

\* the two lookups made for the pair (source, target)
directions(source, target) == <<<<source, target>>, <<target, source>>>>

\* faulty variant of has_context_match: the two strings are not lower-cased
has_context_match_case_sensitive(context, edge_data) ==
    contains(context, edge_data.context)

\* context_lower in edge_context_lower
has_context_match(context, edge_data) ==
    contains(lower(context), lower(edge_data.context))

is_default(edge_data) == edge_data.context = ctxDefault

\* faulty variant of has_context_specific_edges: any non-default edge counts,
\* whether or not its label contains the context
has_any_specific_edges(context, edges_dict) ==
    \E k \in 1..Len(edges_dict) : edges_dict[k].context # ctxDefault

\* faulty variant of has_context_specific_edges: the edges of the whole
\* graph are searched instead of those of the looked-up pair
has_context_specific_edges_anywhere(context, edges_dict) ==
    \E k \in 1..Len(edges) :
        /\ edges[k].context # ctxDefault
        /\ contains(lower(context), lower(edges[k].context))

\* any(...) over the non-default edges of edges_dict
has_context_specific_edges(context, edges_dict) ==
    \E k \in 1..Len(edges_dict) :
        /\ edges_dict[k].context # ctxDefault
        /\ contains(lower(context), lower(edges_dict[k].context))

\* faulty variant of include_edge: the fallback is not limited to default edges
include_edge_lenient(context, edge_data, edges_dict) ==
    IF truthy(context)
    THEN IF ~has_context_match(context.val, edge_data)
         THEN ~has_context_specific_edges(context.val, edges_dict)
         ELSE TRUE
    ELSE TRUE

\* TRUE when the loop body reaches "Build join condition" for edge_data
include_edge(context, edge_data, edges_dict) ==
    IF truthy(context)
    THEN IF ~has_context_match(context.val, edge_data)
         THEN is_default(edge_data)
              /\ ~has_context_specific_edges(context.val, edges_dict)
         ELSE TRUE
    ELSE TRUE

\* faulty variant of join_conditions: only the first column pair is rendered
join_conditions_first_pair(start, end, edge_data) ==
    LET pairs == zip(edge_data.source_columns, edge_data.target_columns)
    IN  IF pairs = <<>> THEN <<>>
        ELSE <<start \o strDot \o pairs[1][1] \o strEq \o end \o strDot \o pairs[1][2]>>

\* the list of "start.src = end.tgt" equalities of one edge
join_conditions(start, end, edge_data) ==
    LET pairs == zip(edge_data.source_columns, edge_data.target_columns)
    IN  [k \in 1..Len(pairs) |->
            start \o strDot \o pairs[k][1] \o strEq \o end \o strDot \o pairs[k][2]]

\* faulty variant of join_record: the two tables are named the wrong way round
join_record_reversed(start, end, edge_data) ==
    [from_table |-> end,
     to_table |-> start,
     join_condition |-> join(strAND, join_conditions(start, end, edge_data)),
     join_type |-> edge_data.join_type,
     context |-> edge_data.context,
     description |-> edge_data.description]

\* the dict appended to relationships for one included edge
join_record(start, end, edge_data) ==
    [from_table |-> start,
     to_table |-> end,
     join_condition |-> join(strAND, join_conditions(start, end, edge_data)),
     join_type |-> edge_data.join_type,
     context |-> edge_data.context,
     description |-> edge_data.description]

\* the records of one lookup start -> end
records_of(start, end, context) ==
    LET edges_dict == get_edge_data(start, end)
        included == SelectSeq(edges_dict,
                              LAMBDA e : include_edge(context, e, edges_dict))
    IN  [k \in 1..Len(included) |-> join_record(start, end, included[k])]

\* graph.has_edge(start, end): FALSE also when a name is no node
has_edge(start, end) ==
    \E k \in 1..Len(edges) : edges[k].from = start /\ edges[k].to = end

\* faulty variant of lookup: without the has_edge test, get_edge_data gives
\* None for a pair without edge and None has no items()
lookup_unguarded(start, end, context) ==
    IF get_edge_data(start, end) = <<>>
    THEN [raised |-> "AttributeError", records |-> <<>>]
    ELSE [raised |-> "none", records |-> records_of(start, end, context)]

\* one lookup of the loop over (start, end): the records it appends, and the
\* exception it raises, if any
lookup(start, end, context) ==
    IF has_edge(start, end)
    THEN [raised |-> "none", records |-> records_of(start, end, context)]
    ELSE [raised |-> "none", records |-> <<>>]

\* the index pairs (i, j), i < j, in the order of the two nested loops
index_pairs(n) ==
    LET row(i) == [k \in 1..(n - i) |-> <<i, i + k>>]
    IN  Flatten([i \in 1..n |-> row(i)])

\* faulty variant of get_join_relationships: the records name the tables in
\* the order of the list instead of the direction that was looked up
get_join_relationships_list_order(tables, context) ==
    LET pairs == index_pairs(Len(tables))
        of_pair(p) ==
            LET d == directions(tables[p[1]], tables[p[2]])
                found == Flatten([k \in 1..Len(d) |->
                                     records_of(d[k][1], d[k][2], context)])
            IN  [k \in 1..Len(found) |->
                    [found[k] EXCEPT !.from_table = tables[p[1]],
                                     !.to_table = tables[p[2]]]]
    IN  Flatten([k \in 1..Len(pairs) |-> of_pair(pairs[k])])

\* faulty variant of get_join_relationships: the opposite direction of a
\* pair is looked up only when the first direction gave no record
get_join_relationships_first_found(tables, context) ==
    LET pairs == index_pairs(Len(tables))
        of_pair(p) ==
            LET forward == lookup(tables[p[1]], tables[p[2]], context).records
            IN  IF forward # <<>> THEN forward
                ELSE lookup(tables[p[2]], tables[p[1]], context).records
    IN  Flatten([k \in 1..Len(pairs) |-> of_pair(pairs[k])])

get_join_relationships(tables, context) ==
    LET pairs == index_pairs(Len(tables))
        of_pair(p) ==
            LET d == directions(tables[p[1]], tables[p[2]])
            IN  Flatten([k \in 1..Len(d) |->
                            lookup(d[k][1], d[k][2], context).records])
    IN  Flatten([k \in 1..Len(pairs) |-> of_pair(pairs[k])])

\* the exception that leaves get_join_relationships: that of its first
\* lookup that raises, "none" when none does
get_join_relationships_raised(tables, context) ==
    LET pairs == index_pairs(Len(tables))
        of_pair(p) ==
            LET d == directions(tables[p[1]], tables[p[2]])
            IN  [k \in 1..Len(d) |-> lookup(d[k][1], d[k][2], context).raised]
        raised == SelectSeq(Flatten([k \in 1..Len(pairs) |-> of_pair(pairs[k])]),
                            LAMBDA r : r # "none")
    IN  IF raised = <<>> THEN "none" ELSE raised[1]

GetJoinRelationships ==
    /\ pc.at = "ready"
    /\ ret.op = "none" /\ answer.op = "none" /\ NoProcessCall
    /\ \E tables \in TableLists, context \in Contexts :
          ret' = [op |-> "get_join_relationships",
                  tables |-> tables,
                  context |-> context,
                  joins |-> IF get_join_relationships_raised(tables, context) = "none"
                            THEN get_join_relationships(tables, context)
                            ELSE <<>>,
                  all_tables |-> {},
                  raised |-> get_join_relationships_raised(tables, context)]
    /\ UNCHANGED <<schemas, relationships, nodes, edges, pc, answer, llm, inv>>

(***************************************************************************)
(* TableKnowledgeGraph.get_all_tables_needed.                              *)
(***************************************************************************)
\* faulty variant of to_undirected: the search follows declared directions
directed_only(u, v) ==
    \E k \in 1..Len(edges) : edges[k].from = u /\ edges[k].to = v

\* graph.to_undirected(): u and v are neighbours when an edge joins them
to_undirected(u, v) ==
    \E k \in 1..Len(edges) :
        \/ edges[k].from = u /\ edges[k].to = v
        \/ edges[k].from = v /\ edges[k].to = u

\* the paths (no node twice) that extend the paths of `frontier` by any
\* number of edges of the undirected graph, `frontier` included
RECURSIVE extend(_)
extend(frontier) ==
    IF frontier = {} THEN {}
    ELSE frontier \cup
         extend(UNION {{Append(w, n) : n \in {m \in NodeNames \ Range(w) :
                                                 to_undirected(w[Len(w)], m)}} :
                       w \in frontier})

\* faulty variant of shortest_path: any path joining a and b may be returned
any_path(a, b) ==
    IF a \notin NodeNames \/ b \notin NodeNames
    THEN [raised |-> "NodeNotFound", paths |-> {}]
    ELSE LET joining == {w \in extend({<<a>>}) : w[Len(w)] = b}
         IN  IF joining = {}
             THEN [raised |-> "NetworkXNoPath", paths |-> {}]
             ELSE [raised |-> "none", paths |-> joining]

\* nx.shortest_path(G, a, b): the paths it may return (the tie-break among
\* shortest paths is the library's traversal order); "NodeNotFound" when an
\* endpoint is no node of G, "NetworkXNoPath" when no path joins them
shortest_path(a, b) ==
    IF a \notin NodeNames \/ b \notin NodeNames
    THEN [raised |-> "NodeNotFound", paths |-> {}]
    ELSE LET joining == {w \in extend({<<a>>}) : w[Len(w)] = b}
         IN  IF joining = {}
             THEN [raised |-> "NetworkXNoPath", paths |-> {}]
             ELSE [raised |-> "none",
                   paths |-> {w \in joining :
                                 \A v \in joining : Len(w) <= Len(v)}]

\* faulty variant of update_all_tables: only the two ends of each path are
\* added, the tables between them are not
RECURSIVE update_all_tables_ends_only(_, _, _)
update_all_tables_ends_only(tables, pairs, sets) ==
    IF pairs = <<>> THEN [raised |-> "none", sets |-> sets]
    ELSE LET sp == shortest_path(tables[pairs[1][1]], tables[pairs[1][2]])
         IN  CASE sp.raised = "none" ->
                    update_all_tables_ends_only(tables, Tail(pairs),
                        {s \cup {p[1], p[Len(p)]} : s \in sets, p \in sp.paths})
               [] sp.raised = "NetworkXNoPath" ->
                    update_all_tables_ends_only(tables, Tail(pairs), sets)
               [] OTHER -> [raised |-> sp.raised, sets |-> {}]

\* faulty variant of update_all_tables: the except clause is missing, so
\* NetworkXNoPath leaves the method like any other exception
RECURSIVE update_all_tables_uncaught(_, _, _)
update_all_tables_uncaught(tables, pairs, sets) ==
    IF pairs = <<>> THEN [raised |-> "none", sets |-> sets]
    ELSE LET sp == shortest_path(tables[pairs[1][1]], tables[pairs[1][2]])
         IN  CASE sp.raised = "none" ->
                    update_all_tables_uncaught(tables, Tail(pairs),
                        {s \cup Range(p) : s \in sets, p \in sp.paths})
               [] OTHER -> [raised |-> sp.raised, sets |-> {}]

\* the outcome of the two nested loops over the index pairs still to visit,
\* entered with all_tables being one of `sets`: the sets all_tables may hold
\* at the end, or the exception that left the method
RECURSIVE update_all_tables(_, _, _)
update_all_tables(tables, pairs, sets) ==
    IF pairs = <<>> THEN [raised |-> "none", sets |-> sets]
    ELSE LET sp == shortest_path(tables[pairs[1][1]], tables[pairs[1][2]])
         IN  CASE sp.raised = "none" ->
                    update_all_tables(tables, Tail(pairs),
                        {s \cup Range(p) : s \in sets, p \in sp.paths})
               [] sp.raised = "NetworkXNoPath" ->
                    update_all_tables(tables, Tail(pairs), sets)
               [] OTHER -> [raised |-> sp.raised, sets |-> {}]

get_all_tables_needed(tables) ==
    update_all_tables(tables, index_pairs(Len(tables)), {Range(tables)})

GetAllTablesNeeded ==
    /\ pc.at = "ready"
    /\ ret.op = "none" /\ answer.op = "none" /\ NoProcessCall
    /\ \E tables \in TableLists :
          LET out == get_all_tables_needed(tables)
          IN  \/ /\ out.raised = "none"
                 /\ \E s \in out.sets :
                       ret' = [op |-> "get_all_tables_needed",
                               tables |-> tables,
                               context |-> None,
                               joins |-> <<>>,
                               all_tables |-> s,
                               raised |-> "none"]
              \/ /\ out.raised # "none"
                 /\ ret' = [op |-> "get_all_tables_needed",
                            tables |-> tables,
                            context |-> None,
                            joins |-> <<>>,
                            all_tables |-> {},
                            raised |-> out.raised]
    /\ UNCHANGED <<schemas, relationships, nodes, edges, pc, answer, llm, inv>>

(***************************************************************************)
(* TableKnowledgeGraph.get_columns_for_tables, get_graph_stats and         *)
(* export_graph_data; the snapshot file and the graph visualize_kg.py      *)
(* rebuilds from it.                                                       *)
(***************************************************************************)
\* the elements of a list, each once, in the order of their first occurrence
RECURSIVE unique(_)
unique(s) ==
    IF s = <<>> THEN <<>>
    ELSE <<Head(s)>> \o unique(SelectSeq(Tail(s), LAMBDA x : x # Head(s)))

\* self.schemas.get(table, [])
schemas_get(table) ==
    IF \E k \in 1..Len(schemas) : schemas[k].table = table
    THEN schemas[CHOOSE k \in 1..Len(schemas) : schemas[k].table = table].columns
    ELSE <<>>

\* the dict of the comprehension, one key per distinct table
get_columns_for_tables(tables) ==
    LET keys == unique(tables)
    IN  [k \in 1..Len(keys) |->
            [table |-> keys[k], columns |-> schemas_get(keys[k])]]

\* graph.degree(): the edges that leave the node plus those that enter it
degree(name) ==
    Len(SelectSeq(edges, LAMBDA e : e.from = name)) +
    Len(SelectSeq(edges, LAMBDA e : e.to = name))

RECURSIVE sum(_)
sum(s) == IF s = <<>> THEN 0 ELSE Head(s) + sum(Tail(s))

\* nx.is_weakly_connected(graph): undefined for the graph without nodes
is_weakly_connected ==
    IF Len(nodes) = 0
    THEN [raised |-> "NetworkXPointlessConcept", value |-> FALSE]
    ELSE [raised |-> "none",
          value |-> {w[Len(w)] : w \in extend({<<nodes[1].name>>})} = NodeNames]

\* the statistics dict; average_connections is the quotient num / den
get_graph_stats ==
    LET n == Len(nodes)
        degrees == [k \in 1..n |-> degree(nodes[k].name)]
    IN  [total_tables |-> n,
         total_relationships |-> Len(edges),
         tables |-> [k \in 1..n |-> nodes[k].name],
         average_connections |-> IF n > 0 THEN [num |-> sum(degrees), den |-> n]
                                 ELSE [num |-> 0, den |-> 1],
         is_connected |-> is_weakly_connected.value,
         raised |-> is_weakly_connected.raised]

\* graph.edges(keys=True): node by node in node order, for each node its
\* successors in the order their first edge was added, then the parallel
\* edges in key order
successors(name) ==
    unique(LET leaving == SelectSeq(edges, LAMBDA e : e.from = name)
           IN  [k \in 1..Len(leaving) |-> leaving[k].to])

\* faulty variant of edges_view: the keys are left out and each pair of
\* nodes is exported with its first edge only
edges_view_without_keys ==
    Flatten([i \in 1..Len(nodes) |->
        LET succ == successors(nodes[i].name)
        IN  [k \in 1..Len(succ) |-> get_edge_data(nodes[i].name, succ[k])[1]]])

edges_view ==
    Flatten([i \in 1..Len(nodes) |->
        LET succ == successors(nodes[i].name)
        IN  Flatten([k \in 1..Len(succ) |-> get_edge_data(nodes[i].name, succ[k])])])

\* a Python list of str
str_list(l) == JList([k \in 1..Len(l) |-> JStr(l[k])])

\* one entry of export_data["nodes"]
export_node(node) ==
    JDict(<<JMember(<<"t", "a", "b", "l", "e", "_", "n", "a", "m", "e">>,
                    JStr(node.name)),
            JMember(<<"c", "o", "l", "u", "m", "n", "s">>,
                    str_list(get(node.columns, <<>>))),
            JMember(<<"c", "o", "l", "u", "m", "n", "_", "c", "o", "u", "n", "t">>,
                    JInt(Len(get(node.columns, <<>>))))>>)

\* one entry of export_data["edges"]
export_edge(e) ==
    JDict(<<JMember(<<"f", "r", "o", "m">>, JStr(e.from)),
            JMember(<<"t", "o">>, JStr(e.to)),
            JMember(<<"s", "o", "u", "r", "c", "e", "_",
                      "c", "o", "l", "u", "m", "n", "s">>,
                    str_list(e.source_columns)),
            JMember(<<"t", "a", "r", "g", "e", "t", "_",
                      "c", "o", "l", "u", "m", "n", "s">>,
                    str_list(e.target_columns)),
            JMember(<<"j", "o", "i", "n", "_", "t", "y", "p", "e">>,
                    JStr(e.join_type)),
            JMember(<<"c", "o", "n", "t", "e", "x", "t">>, JStr(e.context)),
            JMember(<<"d", "e", "s", "c", "r", "i", "p", "t", "i", "o", "n">>,
                    JStr(e.description))>>)

export_graph_data ==
    JDict(<<JMember(<<"n", "o", "d", "e", "s">>,
                    JList([i \in 1..Len(nodes) |-> export_node(nodes[i])])),
            JMember(<<"e", "d", "g", "e", "s">>,
                    JList([k \in 1..Len(edges_view) |-> export_edge(edges_view[k])]))>>)

\* the list of str a loaded JSON array of strings stands for
list_of_str(v) == [k \in 1..Len(v.items) |-> v.items[k].str]

\* G.add_node(node['table_name'], columns=..., column_count=...)
visualize_add_node(G, node) ==
    LET name == dict_get(node, <<"t", "a", "b", "l", "e", "_", "n", "a", "m", "e">>).str
        attrs == [name |-> name,
                  columns |-> Some(list_of_str(
                      dict_get(node, <<"c", "o", "l", "u", "m", "n", "s">>))),
                  column_count |-> Some(<<int_of_str(dict_get(node,
                      <<"c", "o", "l", "u", "m", "n", "_", "c", "o", "u", "n", "t">>).str)>>)]
    IN  [G EXCEPT !.nodes =
            IF \E i \in 1..Len(G.nodes) : G.nodes[i].name = name
            THEN [i \in 1..Len(G.nodes) |->
                    IF G.nodes[i].name = name THEN attrs ELSE G.nodes[i]]
            ELSE Append(G.nodes, attrs)]

\* G.add_edge(edge['from'], edge['to'], source_columns=..., ...)
visualize_add_edge(G, edge) ==
    LET from == dict_get(edge, <<"f", "r", "o", "m">>).str
        to == dict_get(edge, <<"t", "o">>).str
        bare(ns, name) ==
            IF \E i \in 1..Len(ns) : ns[i].name = name THEN ns
            ELSE Append(ns, [name |-> name, columns |-> None, column_count |-> None])
    IN  [nodes |-> bare(bare(G.nodes, from), to),
         edges |-> Append(G.edges,
            [from |-> from,
             to |-> to,
             source_columns |-> list_of_str(dict_get(edge,
                 <<"s", "o", "u", "r", "c", "e", "_",
                   "c", "o", "l", "u", "m", "n", "s">>)),
             target_columns |-> list_of_str(dict_get(edge,
                 <<"t", "a", "r", "g", "e", "t", "_",
                   "c", "o", "l", "u", "m", "n", "s">>)),
             join_type |-> dict_get(edge,
                 <<"j", "o", "i", "n", "_", "t", "y", "p", "e">>).str,
             context |-> dict_get(edge, <<"c", "o", "n", "t", "e", "x", "t">>).str,
             description |-> dict_get(edge,
                 <<"d", "e", "s", "c", "r", "i", "p", "t", "i", "o", "n">>).str])]

\* the loop over kg_data['nodes']
RECURSIVE visualize_add_nodes(_, _)
visualize_add_nodes(G, entries) ==
    IF entries = <<>> THEN G
    ELSE visualize_add_nodes(visualize_add_node(G, Head(entries)), Tail(entries))

\* the loop over kg_data['edges']
RECURSIVE visualize_add_edges(_, _)
visualize_add_edges(G, entries) ==
    IF entries = <<>> THEN G
    ELSE visualize_add_edges(visualize_add_edge(G, Head(entries)), Tail(entries))

\* the multigraph visualize_kg.py builds from the loaded snapshot
visualize_kg(kg_data) ==
    visualize_add_edges(
        visualize_add_nodes([nodes |-> <<>>, edges |-> <<>>],
                            dict_get(kg_data, <<"n", "o", "d", "e", "s">>).items),
        dict_get(kg_data, <<"e", "d", "g", "e", "s">>).items)

\* faulty variant of GetColumnsForTables: the lookup is a setdefault, which
\* enters every unknown table into the catalog
GetColumnsForTables_setdefault ==
    /\ pc.at = "ready"
    /\ ret.op = "none" /\ answer.op = "none" /\ NoProcessCall
    /\ \E tables \in TableLists :
          /\ answer' = [op |-> "get_columns_for_tables",
                        value |-> [tables |-> tables,
                                   columns |-> get_columns_for_tables(tables)]]
          /\ schemas' = schemas \o
                SelectSeq([k \in 1..Len(unique(tables)) |->
                              [table |-> unique(tables)[k], columns |-> <<>>]],
                          LAMBDA entry : \A n \in 1..Len(schemas) :
                                            schemas[n].table # entry.table)
    /\ UNCHANGED <<relationships, nodes, edges, pc, ret, llm, inv>>

GetColumnsForTables ==
    /\ pc.at = "ready"
    /\ ret.op = "none" /\ answer.op = "none" /\ NoProcessCall
    /\ \E tables \in TableLists :
          answer' = [op |-> "get_columns_for_tables",
                  value |-> [tables |-> tables,
                             columns |-> get_columns_for_tables(tables)]]
    /\ UNCHANGED <<schemas, relationships, nodes, edges, pc, ret, llm, inv>>

\* the statistics are returned, or the exception of its last entry is raised
GetGraphStats ==
    /\ pc.at = "ready"
    /\ ret.op = "none" /\ answer.op = "none" /\ NoProcessCall
    /\ answer' = [op |-> "get_graph_stats", value |-> get_graph_stats]
    /\ UNCHANGED <<schemas, relationships, nodes, edges, pc, ret, llm, inv>>

ExportGraphData ==
    /\ pc.at = "ready"
    /\ ret.op = "none" /\ answer.op = "none" /\ NoProcessCall
    /\ answer' = [op |-> "export_graph_data", value |-> export_graph_data]
    /\ UNCHANGED <<schemas, relationships, nodes, edges, pc, ret, llm, inv>>

\* test_visualization.py: json.dump(graph_data, f, indent=2) into
\* knowledge_graph_data.json
WriteSnapshot ==
    /\ answer.op = "export_graph_data"
    /\ answer' = [op |-> "knowledge_graph_data.json",
               value |-> json_dump_indent2(answer.value)]
    /\ UNCHANGED <<schemas, relationships, nodes, edges, pc, ret, llm, inv>>

\* visualize_kg.py: json.load of the file, then the rebuild
VisualizeKG ==
    /\ answer.op = "knowledge_graph_data.json"
    /\ answer' = [op |-> "visualize_kg",
               value |-> visualize_kg(json_loads(answer.value).value)]
    /\ UNCHANGED <<schemas, relationships, nodes, edges, pc, ret, llm, inv>>

(***************************************************************************)
(* TextToSQLPipeline: identify_tables, get_join_info, generate_sql and     *)
(* process.  The LLM client is a collaborator whose replies are drawn from *)
(* the sets held in llm; GeminiClient.call turns every failure of the      *)
(* service into an Exception.                                              *)
(***************************************************************************)
startswith(s, prefix) == match_at(s, 1, prefix)

endswith(s, suffix) ==
    Len(suffix) <= Len(s) /\ match_at(s, Len(s) - Len(suffix) + 1, suffix)

\* s[n:]
slice_from(s, n) == SubSeq(s, n + 1, Len(s))

\* s[:-n]
slice_drop_last(s, n) == SubSeq(s, 1, Len(s) - n)

\* str.find(c) and str.rfind(c) of a one-character string: 0-based, or -1
find(s, c) ==
    IF \E k \in 1..Len(s) : s[k] = c
    THEN (CHOOSE k \in 1..Len(s) : s[k] = c /\ \A m \in 1..(k - 1) : s[m] # c) - 1
    ELSE -1

rfind(s, c) ==
    IF \E k \in 1..Len(s) : s[k] = c
    THEN (CHOOSE k \in 1..Len(s) :
              s[k] = c /\ \A m \in (k + 1)..Len(s) : s[m] # c) - 1
    ELSE -1

\* the markdown fence: three backquotes.  A backquote cannot be written in a
\* string here, so the character "~", which no text of the model holds
\* otherwise, stands for it in the replies and in the fences
fence == <<"~", "~", "~">>

fenceJson == <<"~", "~", "~", "j", "s", "o", "n">>

fenceSql == <<"~", "~", "~", "s", "q", "l">>

\* the response of identify_tables without its markdown fences
strip_fences(response, tagged) ==
    LET stripped == strip(response)
        opened == IF startswith(stripped, tagged)
                  THEN slice_from(stripped, Len(tagged))
                  ELSE IF startswith(stripped, fence)
                       THEN slice_from(stripped, 3)
                       ELSE stripped
    IN  IF endswith(opened, fence) THEN slice_drop_last(opened, 3) ELSE opened

\* the try block of identify_tables: the value returned, or the
\* JSONDecodeError that is reported and raised again
parse_tables_response(text) ==
    LET response == strip(strip_fences(text, fenceJson))
        start == find(response, "{")
        end == rfind(response, "}") + 1
    IN  IF start # -1 /\ end > start
        THEN json_loads(SubSeq(response, start + 1, end))
        ELSE json_loads(response)

\* the clean-up of generate_sql
clean_sql(text) == strip(strip_fences(text, fenceSql))

keyTables == <<"t", "a", "b", "l", "e", "s">>

keyContext == <<"c", "o", "n", "t", "e", "x", "t">>

\* bool(v) of a loaded value
py_truthy(v) ==
    CASE v.type \in {"null", "false"} -> FALSE
      [] v.type = "true" -> TRUE
      [] v.type = "int" -> v.str # <<"0">>
      [] v.type = "str" -> v.str # <<>>
      [] OTHER -> v.items # <<>>

\* table_info['tables'] and table_info.get('context') as process evaluates
\* them: a value that is no dict cannot be indexed by a key
stage2_arguments(table_info) ==
    CASE table_info.type # "dict" ->
            [raised |-> "TypeError", tables |-> JNull, context |-> JNull]
      [] ~dict_has(table_info, keyTables) ->
            [raised |-> "KeyError", tables |-> JNull, context |-> JNull]
      [] OTHER ->
            [raised |-> "none",
             tables |-> dict_get(table_info, keyTables),
             context |-> IF dict_has(table_info, keyContext)
                         THEN dict_get(table_info, keyContext)
                         ELSE JNull]

\* the list get_all_tables_needed iterates: a list of str, or the
\* characters of a str; None, bool and int cannot be iterated (list
\* elements other than str and dicts occur in no reply of this model)
tables_argument(v) ==
    CASE v.type = "list" /\ \A k \in 1..Len(v.items) : v.items[k].type = "str" ->
            [raised |-> "none", tables |-> list_of_str(v)]
      [] v.type = "str" ->
            [raised |-> "none", tables |-> [k \in 1..Len(v.str) |-> <<v.str[k]>>]]
      [] OTHER -> [raised |-> "TypeError", tables |-> <<>>]

\* faulty variant of context_argument: a context that is no str is turned
\* into text with str(), None into "None"
context_argument_as_text(v) ==
    CASE v.type = "str" -> [raised |-> "none", context |-> Some(v.str)]
      [] OTHER -> [raised |-> "none", context |-> Some(<<"N", "o", "n", "e">>)]

\* the context as get_join_relationships tests it: None and every falsy
\* value filter nothing; a truthy value that is no str has no lower(), which
\* the method calls at the first edge it looks at (no reply of this model
\* holds such a context)
context_argument(v) ==
    CASE v.type = "str" -> [raised |-> "none", context |-> Some(v.str)]
      [] ~py_truthy(v) -> [raised |-> "none", context |-> None]
      [] OTHER -> [raised |-> "AttributeError", context |-> None]

\* the orders list(all_tables) may have
RECURSIVE orders(_)
orders(S) ==
    IF S = {} THEN {<<>>}
    ELSE UNION {{<<x>> \o o : o \in orders(S \ {x})} : x \in S}

NoJoinInfo ==
    [requested_tables |-> <<>>, all_tables_needed |-> <<>>, joins |-> <<>>,
     schemas |-> <<>>, context |-> None]

\* get_join_info(tables, context): the dicts it may return, or the
\* exception that leaves it
get_join_info(tables, context) ==
    LET needed == get_all_tables_needed(tables)
    IN  IF needed.raised # "none"
        THEN [raised |-> needed.raised, plans |-> {}]
        ELSE [raised |-> "none",
              plans |-> {[requested_tables |-> tables,
                          all_tables_needed |-> all_tables,
                          joins |-> get_join_relationships(all_tables, context),
                          schemas |-> get_columns_for_tables(all_tables),
                          context |-> context] :
                         all_tables \in UNION {orders(s) : s \in needed.sets}}]

strJOIN == <<" ", "J", "O", "I", "N", " ">>

strON == <<"\n", "O", "N", " ">>

strCompositeOpen ==
    <<"\n", "*", "*", "*", " ", "T", "H", "I", "S", " ", "I", "S", " ", "A", " ",
      "C", "O", "M", "P", "O", "S", "I", "T", "E", " ", "J", "O", "I", "N", " ",
      "-", " ", "Y", "O", "U", " ", "M", "U", "S", "T", " ", "U", "S", "E", " ",
      "A", "L", "L", " ", "C", "O", "N", "D", "I", "T", "I", "O", "N", "S", ":", " ">>

strCompositeClose == <<" ", "*", "*", "*">>

\* the text generate_sql writes for one join of the plan
prompt_join(j) ==
    <<"\n">> \o j.from_table \o <<" ">> \o j.join_type \o strJOIN \o j.to_table
    \o strON \o j.join_condition
    \o (IF contains(strAND, j.join_condition)
        THEN strCompositeOpen \o j.join_condition \o strCompositeClose
        ELSE <<>>)
    \o (IF j.description # <<>>
        THEN <<"\n", "(">> \o j.description \o <<")">>
        ELSE <<>>)
    \o <<"\n">>

\* the text generate_sql writes for one table of join_info['schemas']
prompt_schema(entry) ==
    <<"\n">> \o entry.table \o <<":", "\n">> \o
    Flatten([k \in 1..Len(entry.columns) |->
        <<" ", " ", "-", " ">> \o entry.columns[k].name \o <<":", " ">> \o
        entry.columns[k].description \o <<"\n">>])

\* the parts of the generate_sql prompt that come from join_info (the
\* fixed instruction text around them is left out)
generate_sql_prompt(join_info) ==
    [tables_to_use |-> join(<<",", " ">>, join_info.all_tables_needed),
     join_relationships |->
        Flatten([k \in 1..Len(join_info.joins) |-> prompt_join(join_info.joins[k])]),
     table_schemas |->
        Flatten([k \in 1..Len(join_info.schemas) |->
                    prompt_schema(join_info.schemas[k])])]

NoPrompt == [tables_to_use |-> <<>>, join_relationships |-> <<>>, table_schemas |-> <<>>]

\* a pipeline invocation before process is called
Idle ==
    [at |-> "idle", response |-> <<>>, table_info |-> JNull, join_info |-> NoJoinInfo,
     prompt |-> NoPrompt, sql_query |-> <<>>, raised |-> "none", calls |-> 0,
     stages |-> <<>>]

\* faulty variant of propagate: a reply that cannot be parsed is asked for
\* once more
retry_identify_tables(invocation, exception) ==
    IF exception = "JSONDecodeError" /\ invocation.calls < 2
    THEN [invocation EXCEPT !.at = "await_tables",
                            !.calls = @ + 1,
                            !.stages = Append(@, "IdentifyTables")]
    ELSE [invocation EXCEPT !.at = "raised", !.raised = exception]

\* faulty variant of propagate: the failure of a stage is noted and the run
\* goes on with what it has
catch_and_continue(invocation, exception) ==
    IF invocation.at \in {"await_tables", "identified"}
    THEN [invocation EXCEPT !.at = "resolved", !.raised = exception]
    ELSE [invocation EXCEPT !.at = "raised", !.raised = exception]

\* an exception leaves process: no stage catches it
propagate(invocation, exception) ==
    [invocation EXCEPT !.at = "raised", !.raised = exception]

\* faulty variant of table_info_of: the stage-1 result is kept in one
\* place shared by the invocations, which holds the result of another one
table_info_shared(i) ==
    IF \E j \in Invocations \ {i} : inv[j].table_info.type = "dict"
    THEN inv[CHOOSE j \in Invocations \ {i} :
                 inv[j].table_info.type = "dict"].table_info
    ELSE inv[i].table_info

\* line 702 of process: table_info is a local variable of the call
table_info_of(i) == inv[i].table_info

\* process is called: identify_tables sends its prompt to the LLM
StartProcess(i) ==
    /\ pc.at = "ready"
    /\ ret.op = "none" /\ answer.op = "none"
    /\ inv[i].at = "idle"
    /\ inv' = [inv EXCEPT ![i] = [Idle EXCEPT !.at = "await_tables",
                                               !.calls = 1,
                                               !.stages = <<"IdentifyTables">>]]
    /\ UNCHANGED <<schemas, relationships, nodes, edges, pc, ret, answer, llm>>

\* GeminiClient.call raises: the service failed during either call
LLMFails(i) ==
    /\ inv[i].at \in {"await_tables", "await_sql"}
    /\ inv' = [inv EXCEPT ![i] = propagate(inv[i], "Exception")]
    /\ UNCHANGED <<schemas, relationships, nodes, edges, pc, ret, answer, llm>>

\* the LLM answers the first call and identify_tables parses the answer
ReceiveTables(i) ==
    /\ inv[i].at = "await_tables"
    /\ \E text \in llm.tables :
          LET parsed == parse_tables_response(text)
              heard == [inv[i] EXCEPT !.response = text]
          IN  inv' = [inv EXCEPT ![i] =
                        IF parsed.raised # "none"
                        THEN propagate(heard, parsed.raised)
                        ELSE [heard EXCEPT !.at = "identified",
                                           !.table_info = parsed.value]]
    /\ UNCHANGED <<schemas, relationships, nodes, edges, pc, ret, answer, llm>>

\* process evaluates the two arguments and calls get_join_info
ResolveJoins(i) ==
    /\ inv[i].at = "identified"
    /\ LET arguments == stage2_arguments(table_info_of(i))
           tables == tables_argument(arguments.tables)
           context == context_argument(arguments.context)
           entered == [inv[i] EXCEPT !.stages = Append(@, "ResolveJoins")]
       IN  CASE arguments.raised # "none" ->
                  inv' = [inv EXCEPT ![i] = propagate(inv[i], arguments.raised)]
             [] tables.raised # "none" ->
                  inv' = [inv EXCEPT ![i] = propagate(entered, tables.raised)]
             [] OTHER ->
                  LET info == get_join_info(tables.tables, context.context)
                  IN  CASE info.raised # "none" ->
                             inv' = [inv EXCEPT ![i] = propagate(entered, info.raised)]
                        [] context.raised # "none" ->
                             inv' = [inv EXCEPT ![i] = propagate(entered, context.raised)]
                        [] OTHER ->
                             \E plan \in info.plans :
                                inv' = [inv EXCEPT ![i] =
                                          [entered EXCEPT !.at = "resolved",
                                                          !.join_info = plan]]
    /\ UNCHANGED <<schemas, relationships, nodes, edges, pc, ret, answer, llm>>

\* generate_sql builds its prompt from join_info and sends it to the LLM
CallGenerateSQL(i) ==
    /\ inv[i].at = "resolved"
    /\ inv' = [inv EXCEPT ![i] =
                 [inv[i] EXCEPT !.at = "await_sql",
                                !.prompt = generate_sql_prompt(inv[i].join_info),
                                !.calls = @ + 1,
                                !.stages = Append(@, "GenerateSQL")]]
    /\ UNCHANGED <<schemas, relationships, nodes, edges, pc, ret, answer, llm>>

\* the LLM answers the second call and process returns its result dict
ReceiveSQL(i) ==
    /\ inv[i].at = "await_sql"
    /\ \E text \in llm.sql :
          inv' = [inv EXCEPT ![i] = [inv[i] EXCEPT !.at = "returned",
                                                   !.sql_query = clean_sql(text)]]
    /\ UNCHANGED <<schemas, relationships, nodes, edges, pc, ret, answer, llm>>

\* the caller shows the result, or the error it caught
Finish(i) ==
    /\ inv[i].at \in {"returned", "raised"}
    /\ inv' = [inv EXCEPT ![i] = Idle]
    /\ UNCHANGED <<schemas, relationships, nodes, edges, pc, ret, answer, llm>>

\* the steps of the process calls
Process ==
    \/ \E i \in Invocations : StartProcess(i)
    \/ \E i \in Invocations : LLMFails(i)
    \/ \E i \in Invocations : ReceiveTables(i)
    \/ \E i \in Invocations : ResolveJoins(i)
    \/ \E i \in Invocations : CallGenerateSQL(i)
    \/ \E i \in Invocations : ReceiveSQL(i)
    \/ \E i \in Invocations : Finish(i)

(***************************************************************************)
(* update_joins.py writes the Joins sheet of the workbook; load_excel_data *)
(* reads it into the relationship list the graph is built from.            *)
(***************************************************************************)
colTable1 == <<"T", "a", "b", "l", "e", "1">>

colTable2 == <<"T", "a", "b", "l", "e", "2">>

colJoinKeyTable1 == <<"J", "o", "i", "n", " ", "K", "e", "y", " ", "T", "a", "b", "l", "e", "1">>

colJoinKeyTable2 == <<"J", "o", "i", "n", " ", "K", "e", "y", " ", "T", "a", "b", "l", "e", "2">>

\* the header update_joins.py gives the column of context labels
colEMPTY == <<"_", "_", "E", "M", "P", "T", "Y">>

\* the header load_excel_data looks the context label up by
colContext == <<"C", "o", "n", "t", "e", "x", "t">>

\* joins_data: the columns of the sheet, in the order of the dict
joins_data ==
    << [name |-> colTable1,
        values |-> <<tCounterparty, tCounterparty, tCounterparty, tCounterparty>>],
       [name |-> colTable2,
        values |-> <<tTrade, tConcentration, tConcentration, tConcentration>>],
       [name |-> colJoinKeyTable1,
        values |-> <<keyEntityCounterpartyID, keyEntityCounterpartyCountry,
                     keyEntityCounterpartySector, keyEntityInternalRating>>],
       [name |-> colJoinKeyTable2,
        values |-> <<keyEntityReportingCounterpartyID, keyEntityConcentrationValue,
                     keyEntityConcentrationValue, keyEntityConcentrationValue>>],
       [name |-> colEMPTY,
        values |-> <<ctxDefault, ctxCountryLevel, ctxSectorLevel, ctxRatingLevel>>] >>

\* the sheet update_joins.py writes: row 1 holds joins_df.columns, the rows
\* below it hold joins_df.values
write_joins_sheet(data) ==
    [header |-> [c \in 1..Len(data) |-> data[c].name],
     rows |-> [r \in 1..Len(data[1].values) |->
                 [c \in 1..Len(data) |-> data[c].values[r]]]]

\* row.get(column) of a row pd.read_excel gives: None when the sheet has no
\* column with that header
row_get(sheet, r, column) ==
    IF \E c \in 1..Len(sheet.header) : sheet.header[c] = column
    THEN Some(sheet.rows[r][CHOOSE c \in 1..Len(sheet.header) :
                                sheet.header[c] = column])
    ELSE None

\* row.get("Context", "default") if pd.notna(row.get("Context")) else "default"
context_of_row(sheet, r) ==
    IF row_get(sheet, r, colContext) # None
    THEN row_get(sheet, r, colContext).val
    ELSE ctxDefault

\* the relationships list load_excel_data builds from the Joins sheet
load_relationships(sheet) ==
    [r \in 1..Len(sheet.rows) |->
        Rel(row_get(sheet, r, colTable1).val,
            row_get(sheet, r, colTable2).val,
            row_get(sheet, r, colJoinKeyTable1).val,
            row_get(sheet, r, colJoinKeyTable2).val,
            context_of_row(sheet, r))]

\* update_joins.py runs: the workbook holds the new Joins sheet
UpdateJoins ==
    /\ pc.at = "unloaded"
    /\ answer.op = "none"
    /\ answer' = [op |-> "AI_SampleDataStruture.xlsx",
                  value |-> write_joins_sheet(joins_data)]
    /\ UNCHANGED <<schemas, relationships, nodes, edges, pc, ret, llm, inv>>

\* build_knowledge_graph: load_excel_data reads the workbook, then the
\* constructor is entered with what it returned
LoadExcelData ==
    /\ pc.at = "unloaded"
    /\ answer.op = "AI_SampleDataStruture.xlsx"
    /\ relationships' = load_relationships(answer.value)
    /\ pc' = IF Len(schemas) = 0
             THEN [at |-> "add_edges", i |-> 1]
             ELSE [at |-> "add_nodes", i |-> 1]
    /\ answer' = NoAnswer
    /\ UNCHANGED <<schemas, nodes, edges, ret, llm, inv>>

\* the caller takes the value (or the exception) of the finished call
Return ==
    /\ pc.at = "ready"
    /\ ret.op # "none" \/ answer.op # "none"
    /\ ret' = NoReturn
    /\ answer' = NoAnswer
    /\ UNCHANGED <<schemas, relationships, nodes, edges, pc, llm, inv>>

Next ==
    \/ AddTable
    \/ AddRelationship
    \/ Built
    \/ GetJoinRelationships
    \/ GetAllTablesNeeded
    \/ GetColumnsForTables
    \/ GetGraphStats
    \/ ExportGraphData
    \/ WriteSnapshot
    \/ VisualizeKG
    \/ Return

Spec == Init /\ [][Next]_vars

\* one user of the application: the direct calls and one process call at a
\* time, on the graphs of PipelineGraphs
PipelineInit ==
    InitWith(PipelineGraphs, [tables |-> TableReplies, sql |-> SqlReplies],
             <<Idle>>)

PipelineNext == Next \/ Process

PipelineSpec == PipelineInit /\ [][PipelineNext]_vars

\* several process calls that share the graph build_knowledge_graph caches
ConcurrentInit ==
    InitWith(PipelineGraphs,
             [tables |-> ConcurrentTableReplies, sql |-> ConcurrentSqlReplies],
             [i \in 1..NumInvocations |-> Idle])

ConcurrentNext == AddTable \/ AddRelationship \/ Built \/ Process

ConcurrentSpec == ConcurrentInit /\ [][ConcurrentNext]_vars

\* a deployment from the workbook: update_joins.py, then the cached
\* build_knowledge_graph, then join queries on the graph it built
LoaderInit ==
    /\ schemas = ShippedSchemas
    /\ relationships = <<>>
    /\ nodes = <<>>
    /\ edges = <<>>
    /\ pc = [at |-> "unloaded", i |-> 0]
    /\ ret = NoReturn
    /\ answer = NoAnswer
    /\ llm = [tables |-> {}, sql |-> {}]
    /\ inv = <<>>

LoaderNext ==
    \/ UpdateJoins
    \/ LoadExcelData
    \/ AddTable
    \/ AddRelationship
    \/ Built
    \/ GetJoinRelationships
    \/ Return

LoaderSpec == LoaderInit /\ [][LoaderNext]_vars

\* the constructor called on any catalog, the empty one included, with
\* relationship lists from none to the shipped ones
CatalogInit ==
    /\ schemas \in {<<>>, ShippedSchemas}
    /\ relationships \in {<<>>, <<RelTradeDefault>>, <<RelTradeLimit>>,
                          CountryScenario, CycleScenario}
    /\ nodes = <<>>
    /\ edges = <<>>
    /\ pc = IF Len(schemas) = 0
            THEN [at |-> "add_edges", i |-> 1]
            ELSE [at |-> "add_nodes", i |-> 1]
    /\ ret = NoReturn
    /\ answer = NoAnswer
    /\ llm = [tables |-> {}, sql |-> {}]
    /\ inv = <<>>

CatalogSpec == CatalogInit /\ [][Next]_vars

(***************************************************************************)
(* Properties.  The definitions below state what is claimed of the calls;  *)
(* they read the graph and the returned value, not the operators above.    *)
(***************************************************************************)
JoinCall == pc.at = "ready" /\ ret.op = "get_join_relationships"

PathCall == pc.at = "ready" /\ ret.op = "get_all_tables_needed"

\* a join call that was given a non-empty context
Filtered == JoinCall /\ truthy(ret.context)

\* the label contains the requested context, case-insensitively
Matches(label) == contains(lower(ret.context.val), lower(label))

DuplicateFree(l) == \A i, j \in 1..Len(l) : l[i] = l[j] => i = j

\* the pairs of positions (i, j), i < j, of the table list of the call
ListedPairs == {p \in (1..Len(ret.tables)) \X (1..Len(ret.tables)) : p[1] < p[2]}

\* the edges declared between a and b, in either direction
Between(a, b) ==
    {k \in 1..Len(edges) :
        \/ edges[k].from = a /\ edges[k].to = b
        \/ edges[k].from = b /\ edges[k].to = a}

\* the returned join records that join a and b, in either direction
RecordsBetween(a, b) ==
    {r \in 1..Len(ret.joins) :
        \/ ret.joins[r].from_table = a /\ ret.joins[r].to_table = b
        \/ ret.joins[r].from_table = b /\ ret.joins[r].to_table = a}

\* C1: with a context, a join record labelled exactly "default" is returned
\* only if no edge between its two tables, declared in either direction, has
\* a label containing the requested context (case-insensitively).  Stated for
\* requested contexts that do not occur inside the word "default" itself.
C1_DefaultOnlyWithoutMatch ==
    (Filtered /\ ~contains(lower(ret.context.val), ctxDefault)) =>
        \A r \in 1..Len(ret.joins) :
            ret.joins[r].context = ctxDefault =>
                \A k \in Between(ret.joins[r].from_table, ret.joins[r].to_table) :
                    ~Matches(edges[k].context)

\* C2: with a context, for every listed pair none of whose edges (either
\* direction) has a label containing the context, every edge of the pair
\* labelled exactly "default" is returned: in each declared direction there
\* are at least as many default records as default edges.
C2_DefaultFallbackIncluded ==
    Filtered =>
        \A p \in ListedPairs :
            LET a == ret.tables[p[1]]
                b == ret.tables[p[2]]
                DefaultEdges(x, y) ==
                    {k \in 1..Len(edges) :
                        /\ edges[k].from = x /\ edges[k].to = y
                        /\ edges[k].context = ctxDefault}
                DefaultRecords(x, y) ==
                    {r \in 1..Len(ret.joins) :
                        /\ ret.joins[r].from_table = x /\ ret.joins[r].to_table = y
                        /\ ret.joins[r].context = ctxDefault}
            IN  (\A k \in Between(a, b) : ~Matches(edges[k].context)) =>
                    /\ Cardinality(DefaultRecords(a, b)) >= Cardinality(DefaultEdges(a, b))
                    /\ Cardinality(DefaultRecords(b, a)) >= Cardinality(DefaultEdges(b, a))

\* C2 witness: a default edge was returned as the fallback of a pair that
\* also has a context-specific edge, none of them matching the context.
C2_Witness ==
    /\ Filtered
    /\ \E p \in ListedPairs :
          LET a == ret.tables[p[1]]
              b == ret.tables[p[2]]
          IN  /\ \A k \in Between(a, b) : ~Matches(edges[k].context)
              /\ \E k \in Between(a, b) : edges[k].context # ctxDefault
              /\ \E r \in RecordsBetween(a, b) : ret.joins[r].context = ctxDefault

\* C3: with a context, no returned record has a label that is neither exactly
\* "default" nor contains the context; a listed pair whose edges are all
\* non-default and non-matching contributes no record, and nothing is raised.
C3_NoUnrelatedEdges ==
    Filtered =>
        /\ ret.raised = "none"
        /\ \A r \in 1..Len(ret.joins) :
              ret.joins[r].context = ctxDefault \/ Matches(ret.joins[r].context)
        /\ \A p \in ListedPairs :
              LET a == ret.tables[p[1]]
                  b == ret.tables[p[2]]
              IN  (\A k \in Between(a, b) :
                       edges[k].context # ctxDefault /\ ~Matches(edges[k].context))
                  => RecordsBetween(a, b) = {}

\* C3 witness: a pair that has edges, all non-default and non-matching,
\* was asked for and produced no record.
C3_Witness ==
    /\ Filtered
    /\ Len(ret.tables) = 2
    /\ Between(ret.tables[1], ret.tables[2]) # {}
    /\ \A k \in Between(ret.tables[1], ret.tables[2]) :
          edges[k].context # ctxDefault /\ ~Matches(edges[k].context)
    /\ ret.joins = <<>>

\* C4: without a context and over a duplicate-free list, the number of
\* records returned for each pair of listed tables is the number of edges
\* declared between them in both directions together.
C4_UnfilteredCount ==
    (JoinCall /\ ~truthy(ret.context) /\ DuplicateFree(ret.tables)) =>
        \A p \in ListedPairs :
            Cardinality(RecordsBetween(ret.tables[p[1]], ret.tables[p[2]]))
                = Cardinality(Between(ret.tables[p[1]], ret.tables[p[2]]))

\* C4 witness: [Counterparty, Trade] without a context, the only edge between
\* them labelled "default", returned exactly one record.
C4_Witness ==
    /\ JoinCall
    /\ ~truthy(ret.context)
    /\ ret.tables = <<tCounterparty, tTrade>>
    /\ Cardinality(Between(tCounterparty, tTrade)) = 1
    /\ \A k \in Between(tCounterparty, tTrade) : edges[k].context = ctxDefault
    /\ Len(ret.joins) = 1

\* a string cut at every occurrence of sep
RECURSIVE Pieces(_, _)
Pieces(s, sep) ==
    IF ~contains(sep, s) THEN <<s>>
    ELSE LET at == CHOOSE i \in 0..(Len(s) - Len(sep)) :
                       /\ \A k \in 1..Len(sep) : s[i + k] = sep[k]
                       /\ \A h \in 0..(i - 1) :
                             \E k \in 1..Len(sep) : s[h + k] # sep[k]
         IN  <<SubSeq(s, 1, at)>>
                 \o Pieces(SubSeq(s, at + Len(sep) + 1, Len(s)), sep)

\* the condition is n equalities "x.src_k = y.tgt_k" joined by " AND ",
\* the k-th one pairing the k-th source with the k-th target column of e
RendersAllColumns(condition, x, y, e) ==
    LET n == Len(e.source_columns)
        ps == Pieces(condition, strAND)
    IN  /\ Len(ps) = n
        /\ \A k \in 1..n :
              ps[k] = x \o strDot \o e.source_columns[k]
                        \o strEq \o y \o strDot \o e.target_columns[k]

Composite(e) ==
    Len(e.source_columns) = Len(e.target_columns) /\ Len(e.source_columns) >= 2

\* C5: the record returned for an edge with n >= 2 source and n target
\* columns carries n equalities joined by " AND ", in declared column order.
\* Without a context the records of each declared direction x -> y are the
\* edges x -> y in insertion order, which pairs each record with its edge.
C5_CompositeCondition ==
    (JoinCall /\ ~truthy(ret.context) /\ DuplicateFree(ret.tables)) =>
        \A x, y \in Range(ret.tables) :
            LET es == SelectSeq(edges, LAMBDA e : e.from = x /\ e.to = y)
                rs == SelectSeq(ret.joins,
                                LAMBDA r : r.from_table = x /\ r.to_table = y)
            IN  x # y =>
                    /\ Len(rs) = Len(es)
                    /\ \A k \in 1..Len(es) :
                          Composite(es[k]) =>
                              RendersAllColumns(rs[k].join_condition, x, y, es[k])

\* C5 witness: a record was returned for an edge with three column pairs.
C5_Witness ==
    /\ JoinCall
    /\ ~truthy(ret.context)
    /\ DuplicateFree(ret.tables)
    /\ \E r \in 1..Len(ret.joins), k \in 1..Len(edges) :
          /\ edges[k].from = ret.joins[r].from_table
          /\ edges[k].to = ret.joins[r].to_table
          /\ Len(edges[k].source_columns) = 3
          /\ Len(edges[k].target_columns) = 3
          /\ Len(Pieces(ret.joins[r].join_condition, strAND)) = 3

\* the condition expected of the country-level join
condCountry ==
    <<"C", "o", "u", "n", "t", "e", "r", "p", "a", "r", "t", "y", ".", "E", "n", "t", "i", "t", "y", " ", "=", " ", "C", "o", "n", "c", "e", "n", "t", "r", "a", "t", "i", "o", "n", ".", "E", "n", "t", "i", "t", "y", " ", "A", "N", "D", " ", "C", "o", "u", "n", "t", "e", "r", "p", "a", "r", "t", "y", ".", "C", "o", "u", "n", "t", "e", "r", "p", "a", "r", "t", "y", " ", "C", "o", "u", "n", "t", "r", "y", " ", "=", " ", "C", "o", "n", "c", "e", "n", "t", "r", "a", "t", "i", "o", "n", ".", "C", "o", "n", "c", "e", "n", "t", "r", "a", "t", "i", "o", "n", " ", "V", "a", "l", "u", "e">>

\* the call get_join_relationships([Counterparty, Concentration], "Country")
\* on the graph of CountryScenario
CountryCall ==
    /\ relationships = CountryScenario
    /\ JoinCall
    /\ ret.tables = <<tCounterparty, tConcentration>>
    /\ ret.context = Some(reqCountry)

\* C6: on the shipped rows plus a default Counterparty -> Concentration edge
\* on another composite key, [Counterparty, Concentration] with context
\* "Country" returns exactly one record, the country-level edge, with the
\* condition "Counterparty.Entity = Concentration.Entity AND
\* Counterparty.Counterparty Country = Concentration.Concentration Value".
C6_CountryScenario ==
    CountryCall =>
        /\ Len(ret.joins) = 1
        /\ ret.joins[1].from_table = tCounterparty
        /\ ret.joins[1].to_table = tConcentration
        /\ ret.joins[1].context = ctxCountryLevel
        /\ ret.joins[1].join_condition = condCountry

\* C6 witness: that call was made and returned.
C6_Witness == CountryCall /\ ret.joins # <<>>

\* C7: every edge of the graph has as many source as target columns (a
\* relationship whose two keys split into lists of different length is
\* rejected and adds no edge).
C7_EqualColumnCounts ==
    \A k \in 1..Len(edges) :
        Len(edges[k].source_columns) = Len(edges[k].target_columns)

\* C8: get_all_tables_needed does not fail on a non-empty list that holds
\* names absent from the graph: it returns, and every requested name, known
\* or not, is in the result.
C8_UnknownNamesPassThrough ==
    (PathCall /\ ret.tables # <<>>) =>
        /\ ret.raised = "none"
        /\ Range(ret.tables) \subseteq ret.all_tables

\* u and v are the two ends of some edge, whatever its declared direction
Linked(u, v) ==
    \E k \in 1..Len(edges) :
        \/ edges[k].from = u /\ edges[k].to = v
        \/ edges[k].from = v /\ edges[k].to = u

\* the sequences of distinct nodes of the graph
NodeSeqs ==
    UNION {{f \in [1..n -> NodeNames] : \A i, j \in 1..n : f[i] = f[j] => i = j} :
           n \in 1..Cardinality(NodeNames)}

\* the undirected paths from a to b
PathsBetween(a, b) ==
    {p \in NodeSeqs :
        /\ p[1] = a
        /\ p[Len(p)] = b
        /\ \A i \in 1..(Len(p) - 1) : Linked(p[i], p[i + 1])}

\* those with the fewest edges
ShortestBetween(a, b) ==
    LET ps == PathsBetween(a, b)
    IN  {p \in ps : \A q \in ps : Len(p) <= Len(q)}

\* breadth-first search inside the node set S: `seen` are the nodes at most
\* k edges away from the start; the number of edges to b, or -1
RECURSIVE Steps(_, _, _, _)
Steps(S, seen, b, k) ==
    IF b \in seen THEN k
    ELSE LET more == {v \in S \ seen : \E u \in seen : Linked(u, v)}
         IN  IF more = {} THEN -1 ELSE Steps(S, seen \cup more, b, k + 1)

\* the fewest edges of a path between a and b that stays inside S, or -1
DistIn(S, a, b) == Steps(S, {a} \cap S, b, 0)

\* the fewest edges of a path between a and b, or -1 when none joins them
Dist(a, b) == DistIn(NodeNames, a, b)

\* t is a node of some shortest path between a and b
OnShortest(t, a, b) ==
    LET ab == Dist(a, b)
        at == Dist(a, t)
        tb == Dist(t, b)
    IN  ab >= 0 /\ at >= 0 /\ tb >= 0 /\ at + tb = ab

\* S holds all nodes of one shortest path between a and b
HoldsShortestPath(S, a, b) == DistIn(S, a, b) = Dist(a, b)

\* C9: for requested tables that are all nodes, the result holds every
\* requested table, holds for every pair of requested tables joined by an
\* undirected path all nodes of one shortest such path, and every table it
\* adds lies on a shortest path between two requested tables.
C9_ShortestPathCompletion ==
    (PathCall /\ Range(ret.tables) \subseteq NodeNames) =>
        /\ ret.raised = "none"
        /\ Range(ret.tables) \subseteq ret.all_tables
        /\ \A p \in ListedPairs :
              Dist(ret.tables[p[1]], ret.tables[p[2]]) >= 0 =>
                  HoldsShortestPath(ret.all_tables,
                                    ret.tables[p[1]], ret.tables[p[2]])
        /\ \A t \in ret.all_tables \ Range(ret.tables) :
              \E p \in ListedPairs :
                  OnShortest(t, ret.tables[p[1]], ret.tables[p[2]])

\* C9 witness: a table was added, one listed pair is also joined by a path
\* longer than its shortest one, and one listed pair has two shortest paths.
C9_Witness ==
    /\ PathCall
    /\ Range(ret.tables) \subseteq NodeNames
    /\ ret.all_tables # Range(ret.tables)
    /\ \E p \in ListedPairs :
          PathsBetween(ret.tables[p[1]], ret.tables[p[2]])
              # ShortestBetween(ret.tables[p[1]], ret.tables[p[2]])
    /\ \E p \in ListedPairs :
          Cardinality(ShortestBetween(ret.tables[p[1]], ret.tables[p[2]])) >= 2

\* a and b are joined, and every path between them passes through m
OnlyThrough(a, b, m) ==
    /\ m \notin {a, b}
    /\ Dist(a, b) >= 0
    /\ DistIn(NodeNames \ {m}, a, b) = -1

\* C10: when A and B are joined only through M, get_all_tables_needed([A, B])
\* holds M, whatever the declared direction of the edges that touch M.
C10_IntermediateTable ==
    (PathCall /\ Len(ret.tables) = 2) =>
        \A m \in NodeNames :
            OnlyThrough(ret.tables[1], ret.tables[2], m) =>
                ret.raised = "none" /\ m \in ret.all_tables

\* C10 witness: M was returned for [A, B] although both edges that touch it
\* are declared M -> A and M -> B, so that no directed path leads from A to B
\* or from B to A.
C10_Witness ==
    /\ PathCall
    /\ Len(ret.tables) = 2
    /\ \E m \in NodeNames :
          /\ OnlyThrough(ret.tables[1], ret.tables[2], m)
          /\ m \in ret.all_tables
          /\ Linked(m, ret.tables[1])
          /\ Linked(m, ret.tables[2])
          /\ \A k \in 1..Len(edges) : edges[k].from = m

\* C11: when the requested list is two tables of the graph that no path of
\* the undirected graph joins, get_all_tables_needed returns exactly those
\* two tables and raises nothing.
C11_DisconnectedPair ==
    (/\ PathCall
     /\ Len(ret.tables) = 2
     /\ Range(ret.tables) \subseteq NodeNames
     /\ Dist(ret.tables[1], ret.tables[2]) = -1)
    => /\ ret.raised = "none"
       /\ ret.all_tables = {ret.tables[1], ret.tables[2]}

\* two different tables of the graph in different components were asked for
C11_Witness ==
    /\ PathCall
    /\ Len(ret.tables) = 2
    /\ ret.tables[1] # ret.tables[2]
    /\ Range(ret.tables) \subseteq NodeNames
    /\ Dist(ret.tables[1], ret.tables[2]) = -1
    /\ ret.raised = "none"
    /\ Cardinality(ret.all_tables) = 2

(***************************************************************************)
(* Claims about TextToSQLPipeline.process.                                 *)
(***************************************************************************)
StageOrder == <<"IdentifyTables", "ResolveJoins", "GenerateSQL">>

IsPrefix(s, t) == Len(s) <= Len(t) /\ SubSeq(t, 1, Len(s)) = s

Entered(v, stage) == \E k \in 1..Len(v.stages) : v.stages[k] = stage

\* the join plan of the invocation exists
HasPlan(v) == v.at \in {"resolved", "await_sql", "returned"}

\* the tables and the context the stage-1 result holds
Stage1Tables(v) == list_of_str(dict_get(v.table_info, keyTables))

Stage1Context(v) ==
    IF dict_has(v.table_info, keyContext)
       /\ dict_get(v.table_info, keyContext).type = "str"
    THEN Some(dict_get(v.table_info, keyContext).str)
    ELSE None

\* the prompt of stage 3 names the tables of the plan and, join by join in
\* the order of the plan, its two tables, its join type and its condition
PromptCarries(prompt, plan) ==
    LET pieces == Pieces(prompt.join_relationships, strON)
    IN  /\ Pieces(prompt.tables_to_use, <<",", " ">>) =
              (IF plan.all_tables_needed = <<>> THEN <<<<>>>>
               ELSE plan.all_tables_needed)
        /\ Len(pieces) = Len(plan.joins) + 1
        /\ \A k \in 1..Len(plan.joins) :
              /\ endswith(pieces[k], plan.joins[k].from_table \o <<" ">> \o
                                     plan.joins[k].join_type \o strJOIN \o
                                     plan.joins[k].to_table)
              /\ startswith(pieces[k + 1], plan.joins[k].join_condition)

\* C12: in a run of process the stages are entered in the order
\* IdentifyTables, ResolveJoins, GenerateSQL, each at most once; the LLM is
\* called once per entered LLM stage, at most twice; join resolution is
\* entered only with a stage-1 result and its plan is the plan for the
\* tables and the context of that result; the stage-3 prompt is built only
\* from an existing plan and carries exactly that plan.
C12_StagesInOrder ==
    \A i \in Invocations :
        LET v == inv[i]
        IN  /\ IsPrefix(v.stages, StageOrder)
            /\ v.calls = (IF Entered(v, "IdentifyTables") THEN 1 ELSE 0) +
                         (IF Entered(v, "GenerateSQL") THEN 1 ELSE 0)
            /\ v.calls <= 2
            /\ Entered(v, "ResolveJoins") =>
                  parse_tables_response(v.response).raised = "none"
            /\ HasPlan(v) =>
                  /\ v.join_info.requested_tables = Stage1Tables(v)
                  /\ v.join_info.context = Stage1Context(v)
            /\ Entered(v, "GenerateSQL") =>
                  /\ v.at \in {"await_sql", "returned", "raised"}
                  /\ PromptCarries(v.prompt, v.join_info)

\* a run went through the three stages with a plan of at least one join
C12_Witness ==
    \E i \in Invocations :
        /\ inv[i].at = "returned"
        /\ inv[i].stages = StageOrder
        /\ inv[i].calls = 2
        /\ Len(inv[i].join_info.joins) >= 2
        /\ Len(inv[i].join_info.all_tables_needed) = 3

\* the failures of stage 1: the first LLM call, or the parsing of its reply
Stage1Failed(v) ==
    \/ v.raised = "JSONDecodeError"
    \/ v.raised = "Exception" /\ v.response = <<>>

\* the failures of join resolution
Stage2Failed(v) ==
    v.raised \in {"KeyError", "TypeError", "AttributeError", "NodeNotFound"}

FailureAborts ==
    \A i \in Invocations :
        LET v == inv[i]
        IN  /\ v.raised # "none" =>
                  /\ v.at = "raised"
                  /\ v.sql_query = <<>>
            /\ Stage1Failed(v) =>
                  /\ v.stages = <<"IdentifyTables">>
                  /\ v.join_info = NoJoinInfo
                  /\ v.calls = 1 /\ v.prompt = NoPrompt
            /\ Stage2Failed(v) =>
                  /\ ~Entered(v, "GenerateSQL")
                  /\ v.join_info = NoJoinInfo
                  /\ v.calls = 1 /\ v.prompt = NoPrompt
            /\ v.at = "returned" => v.raised = "none"

\* a failed run takes no further step: the caller gets the exception
FailedRunStops ==
    \A i \in Invocations :
        inv[i].at = "raised" => inv'[i] = inv[i] \/ inv'[i] = Idle

\* C13: a failure in a stage of process ends the run with the exception
\* raised to the caller and no result: after a failure of the first LLM call
\* or of the parsing of its reply neither join resolution nor the second
\* LLM call happens, after a failure of join resolution the second LLM call
\* does not happen, and a failed run takes no further step.
C13_FailureAborts == []FailureAborts /\ [][FailedRunStops]_vars

\* join resolution failed on a table that is no node of the graph, after
\* one LLM call
C13_Witness ==
    \E i \in Invocations :
        /\ inv[i].at = "raised"
        /\ inv[i].raised = "NodeNotFound"
        /\ Entered(inv[i], "ResolveJoins")
        /\ inv[i].calls = 1

\* C14: once the LLM has answered the first call, identify_tables either
\* has returned a JSON object or has failed with the parse error
\* (JSONDecodeError); it returns nothing that is not a JSON object.
C14_ObjectOrParseError ==
    \A i \in Invocations :
        inv[i].response # <<>> =>
            \/ inv[i].raised = "JSONDecodeError"
            \/ inv[i].table_info.type = "dict"

(***************************************************************************)
(* Claims about the snapshot of the graph.                                 *)
(***************************************************************************)
\* what the claim compares of an edge
EdgeCore(e) ==
    [from |-> e.from, to |-> e.to, source_columns |-> e.source_columns,
     target_columns |-> e.target_columns, context |-> e.context]

\* how many edges of the list have the core c
CoreCount(list, c) == Cardinality({k \in 1..Len(list) : EdgeCore(list[k]) = c})

Rebuilt == pc.at = "ready" /\ answer.op = "visualize_kg"

\* C15: the multigraph rebuilt from the written snapshot of
\* export_graph_data holds the same edges as the exported graph, as a
\* multiset of (from, to, source columns, target columns, context): every
\* such edge occurs as often in the one as in the other.
C15_SnapshotRoundTrip ==
    Rebuilt =>
        /\ Len(answer.value.edges) = Len(edges)
        /\ \A k \in 1..Len(edges) :
              CoreCount(answer.value.edges, EdgeCore(edges[k])) =
              CoreCount(edges, EdgeCore(edges[k]))
        /\ \A k \in 1..Len(answer.value.edges) :
              CoreCount(edges, EdgeCore(answer.value.edges[k])) =
              CoreCount(answer.value.edges, EdgeCore(answer.value.edges[k]))

\* a graph with parallel edges was rebuilt, its edges in another order than
\* they were added to the exported graph
C15_Witness ==
    /\ Rebuilt
    /\ \E j, k \in 1..Len(edges) :
          j # k /\ edges[j].from = edges[k].from /\ edges[j].to = edges[k].to
    /\ Len(answer.value.edges) = Len(edges)
    /\ \E k \in 1..Len(edges) :
          EdgeCore(answer.value.edges[k]) # EdgeCore(edges[k])

\* the first equality of the condition of an edge, as declared
FirstEquality(e) ==
    e.from \o strDot \o e.source_columns[1] \o strEq \o
    e.to \o strDot \o e.target_columns[1]

\* C16: every join record carries the direction and the label of an edge of
\* the graph: some edge leads from its from_table to its to_table, bears
\* its context as label, and its condition starts with that edge's
\* "from.source = to.target", whatever the order of the two tables in the
\* list and whatever context was requested.
C16_DeclaredDirection ==
    JoinCall =>
        \A k \in 1..Len(ret.joins) :
            \E n \in 1..Len(edges) :
                /\ edges[n].from = ret.joins[k].from_table
                /\ edges[n].to = ret.joins[k].to_table
                /\ edges[n].context = ret.joins[k].context
                /\ startswith(ret.joins[k].join_condition, FirstEquality(edges[n]))

\* a filtered call listed A before B and returned a record from B to A
\* whose context is the edge's label, not the requested string
C16_Witness ==
    /\ Filtered
    /\ Len(ret.tables) = 2
    /\ ret.tables[1] # ret.tables[2]
    /\ \E k \in 1..Len(ret.joins) :
          /\ ret.joins[k].from_table = ret.tables[2]
          /\ ret.joins[k].to_table = ret.tables[1]
          /\ ret.joins[k].context # ret.context.val
          /\ ret.joins[k].context # ctxDefault

\* C17: once the graph is built, no step changes the nodes, the edges (with
\* their columns, join type, context and description) or the schema
\* catalog: not the direct calls of the query, catalog, statistics and
\* export methods, not the steps of a process call.
C17_ReadOnlyAfterBuild ==
    [][pc.at = "ready" =>
          /\ nodes' = nodes
          /\ edges' = edges
          /\ schemas' = schemas]_vars

\* a process call has returned its result on the built graph
C17_Witness ==
    /\ pc.at = "ready"
    /\ Len(edges) >= 1
    /\ \E i \in Invocations :
          inv[i].at = "returned" /\ Len(inv[i].join_info.joins) >= 1

\* the plans get_join_info may return for the stage-1 result of v, on its own
PlansAlone(v) ==
    LET arguments == stage2_arguments(v.table_info)
    IN  IF arguments.raised # "none" THEN {}
        ELSE get_join_info(tables_argument(arguments.tables).tables,
                           context_argument(arguments.context).context).plans

\* C18: with several process calls interleaved on one graph, the join plan
\* of each invocation is a plan that get_join_info returns for the tables
\* and the context of that invocation's own stage-1 result.
C18_PlanAsAlone ==
    \A i \in Invocations : HasPlan(inv[i]) => inv[i].join_info \in PlansAlone(inv[i])

\* two invocations hold plans for different stage-1 results, one of them
\* suspended at its second LLM call when the other resolved its joins
C18_Witness ==
    \E i, j \in Invocations :
        /\ i # j
        /\ inv[i].at = "await_sql"
        /\ inv[j].at = "resolved"
        /\ inv[i].join_info.requested_tables # inv[j].join_info.requested_tables
        /\ Len(inv[i].join_info.joins) >= 1
        /\ Len(inv[j].join_info.joins) >= 1

(***************************************************************************)
(* Further claims about get_join_relationships.                            *)
(***************************************************************************)
\* the edges declared from x to y that are labelled "default"
DefaultEdgesFrom(x, y) ==
    {k \in 1..Len(edges) :
        edges[k].from = x /\ edges[k].to = y /\ edges[k].context = ctxDefault}

\* the returned records from x to y that are labelled "default"
DefaultRecordsFrom(x, y) ==
    {r \in 1..Len(ret.joins) :
        /\ ret.joins[r].from_table = x /\ ret.joins[r].to_table = y
        /\ ret.joins[r].context = ctxDefault}

\* an edge declared from x to y, not labelled "default", matches the context
SpecificMatchFrom(x, y) ==
    \E k \in 1..Len(edges) :
        /\ edges[k].from = x /\ edges[k].to = y
        /\ edges[k].context # ctxDefault
        /\ Matches(edges[k].context)

\* C19: with a context and a duplicate-free list, whether the default edges
\* declared from x to y are returned is decided by the edges declared from
\* x to y and the context alone: none of them is returned when one of those
\* edges is a context match (and "default" itself is none), all of them
\* otherwise, whatever the edges of the other listed pairs are.
C19_DecidedPerPair ==
    (Filtered /\ DuplicateFree(ret.tables)) =>
        \A x, y \in Range(ret.tables) :
            x # y =>
                Cardinality(DefaultRecordsFrom(x, y)) =
                    IF SpecificMatchFrom(x, y) /\ ~Matches(ctxDefault)
                    THEN 0
                    ELSE Cardinality(DefaultEdgesFrom(x, y))

\* a call on three tables returned a default edge of one pair although an
\* edge of another pair with a table in common matches the context
C19_Witness ==
    /\ Filtered
    /\ DuplicateFree(ret.tables)
    /\ \E x, y, z \in Range(ret.tables) :
          /\ x # y /\ y # z /\ x # z
          /\ SpecificMatchFrom(x, z) \/ SpecificMatchFrom(z, x)
          /\ DefaultRecordsFrom(x, y) # {} \/ DefaultRecordsFrom(y, x) # {}

\* C20: get_join_relationships raises nothing, whatever the table list
\* (names that are no nodes, pairs without edge or without connecting path)
\* and whatever the context; two listed tables without an edge between them
\* contribute no record.
C20_NeverRaises ==
    JoinCall =>
        /\ ret.raised = "none"
        /\ \A a, b \in Range(ret.tables) :
              Between(a, b) = {} => RecordsBetween(a, b) = {}

\* a filtered call returned normally for a list that holds a name that is
\* no node and two tables of the graph that no path joins
C20_Witness ==
    /\ Filtered
    /\ ret.raised = "none"
    /\ \E t \in Range(ret.tables) : t \notin NodeNames
    /\ \E a, b \in Range(ret.tables) \cap NodeNames : Dist(a, b) = -1

\* C21: with a non-empty context, a record labelled exactly "default" is
\* never returned together with a record of the same declared direction of
\* the same pair whose label is not "default" and contains the requested
\* context (case-insensitively), whatever the context string is, also one that
\* occurs inside the word "default".
C21_DefaultNeverWithMatch ==
    Filtered =>
        \A r, s \in 1..Len(ret.joins) :
            ~ /\ ret.joins[r].from_table = ret.joins[s].from_table
              /\ ret.joins[r].to_table = ret.joins[s].to_table
              /\ ret.joins[r].context = ctxDefault
              /\ ret.joins[s].context # ctxDefault
              /\ Matches(ret.joins[s].context)

\* C22: the built graph holds one edge per relationship definition given at
\* construction, in the order given and with the endpoints and label of its
\* definition, so the number of edges is the number of definitions; nothing is
\* merged when several definitions name the same ordered pair or the same pair
\* in opposite directions.
C22_OneEdgePerDefinition ==
    pc.at = "ready" =>
        /\ Len(edges) = Len(relationships)
        /\ \A k \in 1..Len(relationships) :
              /\ edges[k].from = relationships[k].table1
              /\ edges[k].to = relationships[k].table2
              /\ relationships[k].context # None =>
                    edges[k].context = relationships[k].context.val

\* a built graph given two definitions of one ordered pair and a third of the
\* same pair in the opposite direction
C22_Witness ==
    /\ pc.at = "ready"
    /\ \E i, j, k \in 1..Len(relationships) :
          /\ i < j
          /\ relationships[i].table1 = relationships[j].table1
          /\ relationships[i].table2 = relationships[j].table2
          /\ relationships[k].table1 = relationships[i].table2
          /\ relationships[k].table2 = relationships[i].table1
    /\ Len(edges) >= 3

\* the tables of the schema catalog
Catalog == {schemas[k].table : k \in 1..Len(schemas)}

\* the entries export_graph_data reports for the node called name
ExportedAs(name) ==
    LET entries == dict_get(answer.value, <<"n", "o", "d", "e", "s">>).items
    IN  {k \in 1..Len(entries) :
            dict_get(entries[k], <<"t", "a", "b", "l", "e", "_", "n", "a", "m", "e">>)
                = JStr(name)}

\* C23: both endpoints of every edge are nodes of the graph, and every table
\* named by a relationship is a node of the built graph.  A node that is not
\* in the schema catalog is reported by export_graph_data once, with an empty
\* column list and column_count 0, and get_columns_for_tables maps a table
\* that is not in the catalog to the empty list.
C23_EndpointsAreNodes ==
    /\ \A k \in 1..Len(edges) :
          edges[k].from \in NodeNames /\ edges[k].to \in NodeNames
    /\ pc.at = "ready" =>
          \A k \in 1..Len(relationships) :
              /\ relationships[k].table1 \in NodeNames
              /\ relationships[k].table2 \in NodeNames
    /\ answer.op = "export_graph_data" =>
          \A name \in NodeNames \ Catalog :
              LET entries == dict_get(answer.value, <<"n", "o", "d", "e", "s">>).items
              IN  /\ Cardinality(ExportedAs(name)) = 1
                  /\ \A k \in ExportedAs(name) :
                        /\ dict_get(entries[k], <<"c", "o", "l", "u", "m", "n", "s">>)
                              = JList(<<>>)
                        /\ dict_get(entries[k],
                                    <<"c", "o", "l", "u", "m", "n", "_",
                                      "c", "o", "u", "n", "t">>) = JInt(0)
    /\ answer.op = "get_columns_for_tables" =>
          \A k \in 1..Len(answer.value.columns) :
              answer.value.columns[k].table \notin Catalog =>
                  answer.value.columns[k].columns = <<>>

\* an export of a graph in which an edge ends at a table that the catalog does
\* not hold
C23_Witness ==
    /\ answer.op = "export_graph_data"
    /\ \E k \in 1..Len(edges) :
          /\ edges[k].to \notin Catalog
          /\ ExportedAs(edges[k].to) # {}

\* the edge a returned record was built from: the pool holds no two edges
\* with the same endpoints, direction and label
EdgeOf(r) ==
    CHOOSE k \in 1..Len(edges) :
        /\ edges[k].from = ret.joins[r].from_table
        /\ edges[k].to = ret.joins[r].to_table
        /\ edges[k].context = ret.joins[r].context

\* the edges that appear in the result
ReturnedEdges == {EdgeOf(r) : r \in 1..Len(ret.joins)}

\* the elements of a finite set of integers, in increasing order
Ascending(S) ==
    [n \in 1..Cardinality(S) |->
        CHOOSE k \in S : Cardinality({m \in S : m < k}) = n - 1]

\* the pairs of list positions, lexicographically
LexBefore(p, q) == p[1] < q[1] \/ (p[1] = q[1] /\ p[2] < q[2])

PairsInOrder ==
    [n \in 1..Cardinality(ListedPairs) |->
        CHOOSE p \in ListedPairs :
            Cardinality({q \in ListedPairs : LexBefore(q, p)}) = n - 1]

\* the returned edges declared from a to b, in insertion order
ReturnedFrom(a, b) ==
    Ascending({k \in ReturnedEdges : edges[k].from = a /\ edges[k].to = b})

\* the nested pair order: pair by pair, first the edges declared from the
\* earlier-listed table to the later-listed one, then the opposite direction
NestedOrder ==
    Flatten([n \in 1..Len(PairsInOrder) |->
        LET a == ret.tables[PairsInOrder[n][1]]
            b == ret.tables[PairsInOrder[n][2]]
        IN  ReturnedFrom(a, b) \o ReturnedFrom(b, a)])

\* C24: the join records appear in nested pair order with no further
\* sorting: the records of pair (i, j) before those of every lexicographically
\* later pair, within a pair the edges declared from the earlier-listed table
\* to the later-listed one before those of the opposite direction, and within
\* a direction in edge insertion order.
C24_NestedPairOrder ==
    JoinCall =>
        [r \in 1..Len(ret.joins) |-> EdgeOf(r)] = NestedOrder

\* a result with two records of one direction of a pair, a record of the
\* opposite direction of that pair and a record of a later pair
C24_Witness ==
    /\ JoinCall
    /\ \E r, s, t, u \in 1..Len(ret.joins) :
          /\ r < s /\ s < t /\ t < u
          /\ ret.joins[r].from_table = ret.joins[s].from_table
          /\ ret.joins[r].to_table = ret.joins[s].to_table
          /\ ret.joins[t].from_table = ret.joins[r].to_table
          /\ ret.joins[t].to_table = ret.joins[r].from_table
          /\ {ret.joins[u].from_table, ret.joins[u].to_table}
                # {ret.joins[r].from_table, ret.joins[r].to_table}

\* the stage-1 result holds no context: the key is missing, or its value is
\* null or the empty string
ContextMissing(v) == ~dict_has(v.table_info, keyContext)

ContextNull(v) ==
    dict_has(v.table_info, keyContext) /\ dict_get(v.table_info, keyContext) = JNull

ContextEmpty(v) ==
    dict_has(v.table_info, keyContext)
    /\ dict_get(v.table_info, keyContext) = JStr(<<>>)

NoStage1Context(v) == ContextMissing(v) \/ ContextNull(v) \/ ContextEmpty(v)

\* the records of a plan that join a and b, in either direction
PlanRecordsBetween(plan, a, b) ==
    {r \in 1..Len(plan.joins) :
        \/ plan.joins[r].from_table = a /\ plan.joins[r].to_table = b
        \/ plan.joins[r].from_table = b /\ plan.joins[r].to_table = a}

\* C25: when the stage-1 context is null, missing or the empty string, the
\* plan of process is the one get_join_relationships gives without a
\* context: for every two resolved tables it holds as many records as there
\* are edges between them, in both directions together, and every record
\* joins two resolved tables.
C25_NoContextNoFilter ==
    \A i \in Invocations :
        LET v == inv[i]
            plan == v.join_info
            needed == plan.all_tables_needed
        IN  (HasPlan(v) /\ NoStage1Context(v)) =>
                /\ plan.joins = get_join_relationships(needed, None)
                /\ \A a, b \in Range(needed) :
                      a # b => Cardinality(PlanRecordsBetween(plan, a, b))
                                 = Cardinality(Between(a, b))
                /\ \A r \in 1..Len(plan.joins) :
                      /\ plan.joins[r].from_table \in Range(needed)
                      /\ plan.joins[r].to_table \in Range(needed)

\* a plan made without a stage-1 context that holds a default record and
\* records with other labels for the same two tables
C25_Witness ==
    \E i \in Invocations :
        /\ HasPlan(inv[i])
        /\ NoStage1Context(inv[i])
        /\ \E r, s \in 1..Len(inv[i].join_info.joins) :
              /\ inv[i].join_info.joins[r].from_table = inv[i].join_info.joins[s].from_table
              /\ inv[i].join_info.joins[r].to_table = inv[i].join_info.joins[s].to_table
              /\ inv[i].join_info.joins[r].context = ctxDefault
              /\ inv[i].join_info.joins[s].context # ctxDefault

\* the rearrangements of a duplicate-free list
Rearrangements(l) ==
    {p \in [1..Len(l) -> Range(l)] : Range(p) = Range(l)}

\* two record lists hold the same records the same number of times
Occurrences(l, x) == Cardinality({k \in 1..Len(l) : l[k] = x})

SameRecords(l1, l2) ==
    /\ Len(l1) = Len(l2)
    /\ \A x \in Range(l1) \cup Range(l2) : Occurrences(l1, x) = Occurrences(l2, x)

\* C26: for a duplicate-free table list, get_join_relationships returns for
\* every rearrangement of the list, with the same context, the same records
\* the same number of times; only their order may differ.  In particular the
\* records for a set of tables returned by get_all_tables_needed do not
\* depend on the order in which the set is listed.
C26_OrderIndependent ==
    /\ (JoinCall /\ DuplicateFree(ret.tables)) =>
          \A p \in Rearrangements(ret.tables) :
              \A found \in {get_join_relationships(p, ret.context)} :
                  SameRecords(found, ret.joins)
    /\ (PathCall /\ ret.raised = "none") =>
          \A context \in Contexts :
              \A first \in {get_join_relationships(
                                CHOOSE o \in orders(ret.all_tables) : TRUE, context)} :
                  \A p \in orders(ret.all_tables) :
                      \A found \in {get_join_relationships(p, context)} :
                          SameRecords(found, first)

\* a call over three tables whose records come back in another order when the
\* list is rearranged
C26_Witness ==
    /\ JoinCall
    /\ DuplicateFree(ret.tables)
    /\ Len(ret.tables) = 3
    /\ Len(ret.joins) >= 2
    /\ \E p \in Rearrangements(ret.tables) :
          get_join_relationships(p, ret.context) # ret.joins

\* the requested tables are nodes of one connected component of the graph
OneComponent(tables) ==
    \A a, b \in Range(tables) :
        a \in NodeNames /\ b \in NodeNames /\ Dist(a, b) >= 0

\* a record of the plan joins a and b, in either direction
PlanLinks(plan, a, b) == PlanRecordsBetween(plan, a, b) # {}

\* the tables of the plan that its records link to a table of `seen`,
\* directly or through other tables of the plan
RECURSIVE PlanReach(_, _)
PlanReach(plan, seen) ==
    LET more == {t \in Range(plan.all_tables_needed) \ seen :
                    \E u \in seen : PlanLinks(plan, u, t)}
    IN  IF more = {} THEN seen ELSE PlanReach(plan, seen \cup more)

PlanConnected(plan) ==
    \A t \in Range(plan.all_tables_needed) :
        PlanReach(plan, {t}) = Range(plan.all_tables_needed)

\* C27: for a request without context whose tables are all nodes of one
\* connected component, get_join_info raises nothing and every plan it may
\* return is connected: with all_tables_needed as vertices and the join
\* records as undirected links, every table of the plan is linked to every
\* other one.
C27_PlanConnected ==
    (PathCall /\ OneComponent(ret.tables)) =>
        \A info \in {get_join_info(ret.tables, None)} :
            /\ info.raised = "none"
            /\ \A plan \in info.plans :
                  /\ Range(ret.tables) \subseteq Range(plan.all_tables_needed)
                  /\ PlanConnected(plan)

\* a request for two tables that no edge joins: the plan joins them through
\* a table that was not requested
C27_Witness ==
    /\ PathCall
    /\ OneComponent(ret.tables)
    /\ Len(ret.tables) = 2
    /\ ret.tables[1] # ret.tables[2]
    /\ ~Linked(ret.tables[1], ret.tables[2])
    /\ \E plan \in get_join_info(ret.tables, None).plans :
          /\ Len(plan.all_tables_needed) >= 3
          /\ Len(plan.joins) >= 2

\* the graph holds an edge with the direction and the label of the record
BackedByEdge(record) ==
    \E k \in 1..Len(edges) :
        /\ edges[k].from = record.from_table
        /\ edges[k].to = record.to_table
        /\ edges[k].context = record.context

\* C28: every record returned by get_join_relationships(tables, context)
\* names two tables of the given list, two different ones when the list is
\* duplicate-free, and the graph holds an edge from its from_table to its
\* to_table with the label of the record; in every plan of get_join_info both
\* tables of every join are in all_tables_needed.
C28_RecordsJoinListedTables ==
    /\ JoinCall =>
          \A r \in 1..Len(ret.joins) :
              /\ ret.joins[r].from_table \in Range(ret.tables)
              /\ ret.joins[r].to_table \in Range(ret.tables)
              /\ DuplicateFree(ret.tables) =>
                    ret.joins[r].from_table # ret.joins[r].to_table
              /\ BackedByEdge(ret.joins[r])
    /\ PathCall =>
          \A context \in Contexts :
              \A info \in {get_join_info(ret.tables, context)} :
                  \A plan \in info.plans :
                      \A r \in 1..Len(plan.joins) :
                          /\ plan.joins[r].from_table \in Range(plan.all_tables_needed)
                          /\ plan.joins[r].to_table \in Range(plan.all_tables_needed)
                          /\ BackedByEdge(plan.joins[r])

\* a call that returned records although the graph also holds an edge to a
\* table that was not listed
C28_Witness ==
    /\ JoinCall
    /\ ret.joins # <<>>
    /\ \E k \in 1..Len(edges) :
          edges[k].from \in Range(ret.tables) /\ edges[k].to \notin Range(ret.tables)

\* C29: the relationships load_excel_data builds from the Joins sheet that
\* update_joins.py wrote carry the labels written there: "default" for
\* Counterparty-Trade, then "For country level data", "For sector level
\* data" and "For rating level data" for the three Counterparty-Concentration
\* relationships.
C29_LabelsAsWritten ==
    pc.at # "unloaded" =>
        /\ Len(relationships) = 4
        /\ [k \in 1..4 |-> <<relationships[k].table1, relationships[k].table2,
                              relationships[k].context>>]
              = << <<tCounterparty, tTrade, Some(ctxDefault)>>,
                   <<tCounterparty, tConcentration, Some(ctxCountryLevel)>>,
                   <<tCounterparty, tConcentration, Some(ctxSectorLevel)>>,
                   <<tCounterparty, tConcentration, Some(ctxRatingLevel)>> >>

\* the statistics a call of get_graph_stats gave
StatsCall == pc.at = "ready" /\ answer.op = "get_graph_stats"

\* average_connections times total_tables is twice total_relationships
DegreeSum(stats) ==
    stats.average_connections.num * stats.total_tables
        = 2 * stats.total_relationships * stats.average_connections.den

\* C30: get_graph_stats returns its record for every constructed graph
\* without raising; for the graph without tables total_tables is 0 and
\* average_connections is 0; for every graph with tables average_connections
\* times total_tables is twice total_relationships.
C30_StatsForEveryGraph ==
    StatsCall =>
        /\ answer.value.raised = "none"
        /\ answer.value.total_tables = Len(nodes)
        /\ answer.value.total_tables = 0 => answer.value.average_connections.num = 0
        /\ answer.value.total_tables > 0 => DegreeSum(answer.value)
====
